---- MODULE Spec2Model ----
(***************************************************************************)
(* Orchestration core of the repository:                                   *)
(*   - IssueFSM        (src/src/state-machine/IssueFSM.ts)                 *)
(*   - CoordinatorAgent.buildDAG / createExecutionPlan / execute           *)
(*                     (src/unnamed/part_000)                              *)
(* Strings are TLA+ strings, read character by character with SubSeq, so   *)
(* that String.includes, String.startsWith and String.toLowerCase are      *)
(* computed as the code computes them.                                     *)
(* Each specification below owns some of the variables and leaves the      *)
(* others at their initial value:                                          *)
(*   SpecFSM  one IssueFSM instance and the calls made on it               *)
(*   SpecDAG  one CoordinatorAgent and the calls made on it                *)
(*   SpecPipeline  one AgentPipeline, its IssueFSM and the calls made on it*)
(* Left out, since no property below reads them: the timestamp of a        *)
(* StateTransition (IssueFSM.ts:19), the id of an IssueData, and the       *)
(* pictograph that precedes each label text at part_000:72-73.  A call is  *)
(* one step: the code is single-threaded and the ports are awaited, so no  *)
(* other call on the same object runs between two statements of a handler. *)
(***************************************************************************)
EXTENDS Integers, Sequences, FiniteSets, TLC

VARIABLES
    issue,              \* IssueFSM.issue             (IssueFSM.ts:24)
    transitionHistory,  \* IssueFSM.transitionHistory (IssueFSM.ts:25)
    emitted,            \* the emit() calls of the last call on the IssueFSM, in order
    lastCall,           \* the last call on the IssueFSM and how it ended
    caller,             \* the record object the constructor was given: what it held
                        \* then (given), what its owner reads in it now (record),
                        \* and what this.issue shares with it
    response,           \* what the text-generation service answers to decomposeTasks
    tasks,              \* the Task[] handed to buildDAG
    dag,                \* <<the DAG the last buildDAG returned>>, <<>> before
    executionPlan,      \* <<the string[] the last createExecutionPlan returned>>, <<>> before
    comments,           \* what execute posted through github.createComment, in order
    addedLabels,        \* what execute passed to github.addLabels
    result,             \* <<how execute ended>>, <<>> before
    agents,             \* AgentPipeline.agents      (AgentPipeline.ts:10)
    calls,              \* the processIssue calls made on the AgentPipeline, in order
    pipelineEmitted     \* the emit() calls of the AgentPipeline, in order

fsmVars == <<issue, transitionHistory, emitted, lastCall, caller>>
dagVars == <<response, tasks, dag, executionPlan, comments, addedLabels, result>>
pipelineVars == <<agents, calls, pipelineEmitted>>
vars == <<issue, transitionHistory, emitted, lastCall, caller,
          response, tasks, dag, executionPlan, comments, addedLabels, result,
          agents, calls, pipelineEmitted>>

\* An absent optional field, an undefined argument, a value not yet computed.
NoValue == "undefined"

(***************************************************************************)
(* Bounds                                                                  *)
(***************************************************************************)
\* transition() is not called any more once the history holds this many records.
MaxHistory == 2
\* registerAgent() is called at most this many times on a pipeline.
MaxAgents == 2
\* clearAgents() is called at most this many times on a pipeline.
MaxClears == 1
\* processIssue() is called at most this many times on a pipeline.
MaxCalls == 2
\* A decomposition holds at most this many tasks.
MaxTasks == 3
\* A decomposition holds at most this many dependency entries, over all its tasks.
MaxDependencies == 3

(***************************************************************************)
(* String primitives                                                       *)
(***************************************************************************)
UpperChars == "ABCDEFGHIJKLMNOPQRSTUVWXYZ"
LowerChars == "abcdefghijklmnopqrstuvwxyz"

\* The lower-case letter of each upper-case letter.
lowerOf ==
    [c \in {SubSeq(UpperChars, i, i) : i \in 1..Len(UpperChars)} |->
        LET i == CHOOSE j \in 1..Len(UpperChars) : SubSeq(UpperChars, j, j) = c
        IN  SubSeq(LowerChars, i, i)]

\* One character of String.prototype.toLowerCase.
LowerChar(c) == IF c \in DOMAIN lowerOf THEN lowerOf[c] ELSE c

RECURSIVE toLowerCase(_)
toLowerCase(s) ==
    IF Len(s) = 0 THEN ""
    ELSE LowerChar(SubSeq(s, 1, 1)) \o toLowerCase(SubSeq(s, 2, Len(s)))

\* String.prototype.includes: needle occurs in s as a substring.
includes(s, needle) ==
    \E i \in 1..(Len(s) - Len(needle) + 1) : SubSeq(s, i, i + Len(needle) - 1) = needle

\* String.prototype.startsWith.
startsWith(s, prefix) ==
    Len(s) >= Len(prefix) /\ SubSeq(s, 1, Len(prefix)) = prefix

\* Array.prototype.filter.
RECURSIVE filterNot(_, _)
filterNot(seq, prefix) ==
    IF seq = <<>> THEN <<>>
    ELSE IF startsWith(Head(seq), prefix) THEN filterNot(Tail(seq), prefix)
         ELSE <<Head(seq)>> \o filterNot(Tail(seq), prefix)

\* A merge that keeps every occurrence of every element.
uniq_keepsRepeats(seq, acc) == acc \o seq

\* [...new Set(seq)]: the first occurrence of each element, in order.
RECURSIVE uniq(_, _)
uniq(seq, acc) ==
    IF seq = <<>> THEN acc
    ELSE uniq(Tail(seq),
              IF \E i \in 1..Len(acc) : acc[i] = Head(seq) THEN acc
              ELSE Append(acc, Head(seq)))

Range(seq) == {seq[i] : i \in 1..Len(seq)}

(***************************************************************************)
(* IssueFSM                                                                *)
(***************************************************************************)
IssueState == {"new", "pending", "in_progress", "review", "done", "closed"}
IssuePriority == {"low", "medium", "high", "critical"}

\* The records the classification of initialize() is exercised on: texts with
\* keywords of one tier, of several tiers, of the unused medium tier, of no tier,
\* in upper case, inside another word and across the join of title and body.
Titles == {"Test Issue", "Critical production bug", "Minor documentation update",
           "We should follow up", "production"}
Bodies == {"", "down", "URGENT: nice to have", "Important feature for the agent"}
InitialLabels == {<<>>, <<"bug">>, <<"state:new", "docs", "state:done">>,
                  <<"priority:low", "bug", "bug">>}
InitialPriorities == {NoValue, "low", "critical"}
Reasons == {NoValue, "work started"}

\* IssueData as the constructor receives it where classification is exercised.
ClassifiedIssueData ==
    [id : {"test-123"}, title : Titles, body : Bodies, state : {"new", "pending"},
     priority : InitialPriorities, labels : InitialLabels, assignee : {NoValue}]

\* IssueData as the constructor receives it where the lifecycle is exercised.
IssueData ==
    [id : {"test-123"}, title : {"Test Issue", "Fix the docs"}, body : {""},
     state : IssueState, priority : {NoValue, "high"},
     labels : {<<>>, <<"state:new", "docs", "state:done">>}, assignee : {"octocat"}]

\* What a throwing subscriber raises out of emit().
SubscriberError == "subscriber failed"

\* getIssue(): { ...this.issue }.
getIssue(m) == [f \in DOMAIN m.issue |-> m.issue[f]]

\* this.emit(event, payload): the subscribers run inside the call, so the call
\* is recorded with what getIssue() returns to a subscriber that reads it then.
emit(m, event, payload) ==
    [m EXCEPT !.emitted = Append(@, [event |-> event, payload |-> payload,
                                     seen |-> getIssue(m)])]

\* The text both classifiers read: `${title} ${body}`.toLowerCase().
issueText(i) == toLowerCase(i.title \o " " \o i.body)

anyKeyword(text, keywords) == \E k \in 1..Len(keywords) : includes(text, keywords[k])

priorityKeywords ==
    [critical |-> <<"critical", "urgent", "emergency", "production down", "security">>,
     high     |-> <<"high priority", "important", "blocker", "blocking", "asap">>,
     medium   |-> <<"medium", "should", "need", "improvement">>,
     low      |-> <<"low", "minor", "nice to have", "enhancement", "documentation">>]

\* A precedence with a medium tier of its own, matched before the low tier.
assignedPriority_mediumTier(text) ==
    IF anyKeyword(text, priorityKeywords.critical) THEN "critical"
    ELSE IF anyKeyword(text, priorityKeywords.high) THEN "high"
    ELSE IF anyKeyword(text, priorityKeywords.medium) THEN "medium"
    ELSE IF anyKeyword(text, priorityKeywords.low) THEN "low"
    ELSE "medium"

\* The priority autoAssignPriority computes for a lowercased text.
assignedPriority(text) ==
    LET p1 == IF anyKeyword(text, priorityKeywords.critical) THEN "critical" ELSE "medium"
        p2 == IF p1 = "medium" /\ anyKeyword(text, priorityKeywords.high) THEN "high" ELSE p1
        p3 == IF p2 = "medium" /\ anyKeyword(text, priorityKeywords.low) THEN "low" ELSE p2
    IN  p3

\* A transitionToPending that reads previousState after it has set the state.
transitionToPending_readsLate(m) ==
    LET transition == [from |-> "pending", to |-> "pending",
                       reason |-> "Auto-transition from new issue"]
    IN  emit([m EXCEPT !.issue.state = "pending",
                       !.transitionHistory = Append(@, transition)],
             "state-changed", transition)

transitionToPending(m) ==
    LET previousState == m.issue.state
        transition == [from |-> previousState, to |-> "pending",
                       reason |-> "Auto-transition from new issue"]
    IN  emit([m EXCEPT !.issue.state = "pending",
                       !.transitionHistory = Append(@, transition)],
             "state-changed", transition)

autoAssignPriority(m) ==
    LET p == assignedPriority(issueText(m.issue))
    IN  emit([m EXCEPT !.issue.priority = p], "priority-assigned", [priority |-> p])

\* The labels addAutoLabels derives, in the order it pushes them.
newLabels(i) ==
    LET text == issueText(i)
        when(c, l) == IF c THEN <<l>> ELSE <<>>
    IN  when(i.priority # NoValue, "priority:" \o i.priority)
        \o when(includes(text, "bug") \/ includes(text, "error") \/ includes(text, "fix"), "bug")
        \o when(includes(text, "feature") \/ includes(text, "enhancement"), "enhancement")
        \o when(includes(text, "test") \/ includes(text, "testing"), "testing")
        \o when(includes(text, "documentation") \/ includes(text, "docs"), "documentation")
        \o when(includes(text, "state machine") \/ includes(text, "fsm"), "state-machine")
        \o when(includes(text, "agent") \/ includes(text, "pipeline"), "agent-system")
        \o <<"state:" \o i.state>>

\* A write of the labels that empties the array this.issue.labels and refills
\* it, so that whoever shares the array sees the new labels.
assignLabels_inPlace(m, labels) ==
    [m EXCEPT !.issue.labels = labels,
              !.caller.record.labels = IF m.caller.sharesLabels THEN labels ELSE @]

\* this.issue.labels = <a new array>: from then on this.issue.labels is not
\* the array of the record the constructor was given.
assignLabels(m, labels) ==
    [m EXCEPT !.issue.labels = labels, !.caller.sharesLabels = FALSE]

\* A labelling step that appends the derived labels to the list as they come.
addAutoLabels_appends(m) ==
    LET merged == m.issue.labels \o newLabels(m.issue)
    IN  emit(assignLabels(m, merged), "labels-updated", [labels |-> merged])

addAutoLabels(m) ==
    LET merged == uniq(m.issue.labels \o newLabels(m.issue), <<>>)
    IN  emit(assignLabels(m, merged), "labels-updated", [labels |-> merged])

returned(m) == [m EXCEPT !.outcome = "returned"]
threw(m, error) == [m EXCEPT !.outcome = "threw", !.error = error]

\* A catch block that rethrows without the error event.
initializeCatch_silent(m, error) == threw(m, error)

\* The catch block of initialize(): emit 'error', rethrow.
initializeCatch(m, error) == threw(emit(m, "error", [error |-> error]), error)

\* initialize() with the labels derived before the priority is assigned.
initialize_labelsBeforePriority(m, failAt) ==
    IF m.issue.state = "new"
    THEN LET s1 == transitionToPending(m)
             s2 == addAutoLabels(s1)
             s3 == autoAssignPriority(s2)
             s4 == emit(s3, "ready-for-processing", s3.issue)
         IN  CASE failAt = 1 -> initializeCatch(s1, SubscriberError)
               [] failAt = 2 -> initializeCatch(s2, SubscriberError)
               [] failAt = 3 -> initializeCatch(s3, SubscriberError)
               [] failAt = 4 -> initializeCatch(s4, SubscriberError)
               [] OTHER -> returned(s4)
    ELSE returned(m)

\* initialize() without the test of the current state.
initialize_unguarded(m, failAt) ==
    LET s1 == transitionToPending(m)
        s2 == autoAssignPriority(s1)
        s3 == addAutoLabels(s2)
        s4 == emit(s3, "ready-for-processing", s3.issue)
    IN  CASE failAt = 1 -> initializeCatch(s1, SubscriberError)
          [] failAt = 2 -> initializeCatch(s2, SubscriberError)
          [] failAt = 3 -> initializeCatch(s3, SubscriberError)
          [] failAt = 4 -> initializeCatch(s4, SubscriberError)
          [] OTHER -> returned(s4)

\* initialize() that signals ready-for-processing before the labels are derived.
initialize_readyBeforeLabels(m, failAt) ==
    IF m.issue.state = "new"
    THEN LET s1 == transitionToPending(m)
             s2 == autoAssignPriority(s1)
             s3 == emit(s2, "ready-for-processing", s2.issue)
             s4 == addAutoLabels(s3)
         IN  CASE failAt = 1 -> initializeCatch(s1, SubscriberError)
               [] failAt = 2 -> initializeCatch(s2, SubscriberError)
               [] failAt = 3 -> initializeCatch(s3, SubscriberError)
               [] failAt = 4 -> initializeCatch(s4, SubscriberError)
               [] OTHER -> returned(s4)
    ELSE returned(m)

\* initialize(). failAt = k > 0: a subscriber of the k-th event emitted throws.
initialize(m, failAt) ==
    IF m.issue.state = "new"
    THEN LET s1 == transitionToPending(m)
             s2 == autoAssignPriority(s1)
             s3 == addAutoLabels(s2)
             s4 == emit(s3, "ready-for-processing", s3.issue)
         IN  CASE failAt = 1 -> initializeCatch(s1, SubscriberError)
               [] failAt = 2 -> initializeCatch(s2, SubscriberError)
               [] failAt = 3 -> initializeCatch(s3, SubscriberError)
               [] failAt = 4 -> initializeCatch(s4, SubscriberError)
               [] OTHER -> returned(s4)
    ELSE returned(m)

\* A table that also accepts a transition to the current state.
validTransitions_selfLoops ==
    [s \in IssueState |->
        {s} \cup CASE s = "new" -> {"pending", "closed"}
                  [] s = "pending" -> {"in_progress", "closed"}
                  [] s = "in_progress" -> {"review", "pending", "closed"}
                  [] s = "review" -> {"done", "in_progress", "closed"}
                  [] s = "done" -> {"closed", "in_progress"}
                  [] OTHER -> {"pending"}]

\* A table in which nothing leaves the state closed.
validTransitions_closedIsFinal ==
    [new         |-> {"pending", "closed"},
     pending     |-> {"in_progress", "closed"},
     in_progress |-> {"review", "pending", "closed"},
     review      |-> {"done", "in_progress", "closed"},
     done        |-> {"closed", "in_progress"},
     closed      |-> {}]

\* A table in which a closed issue is reopened as new.
validTransitions_reopensAsNew ==
    [new         |-> {"pending", "closed"},
     pending     |-> {"in_progress", "closed"},
     in_progress |-> {"review", "pending", "closed"},
     review      |-> {"done", "in_progress", "closed"},
     done        |-> {"closed", "in_progress"},
     closed      |-> {"new"}]

validTransitions ==
    [new         |-> {"pending", "closed"},
     pending     |-> {"in_progress", "closed"},
     in_progress |-> {"review", "pending", "closed"},
     review      |-> {"done", "in_progress", "closed"},
     done        |-> {"closed", "in_progress"},
     closed      |-> {"pending"}]

\* The label update that keeps no label but the new state label.
updateStateLabel_onlyState(labels, toState) == <<"state:" \o toState>>

\* The label update that appends the new state label and drops no old one.
updateStateLabel_keepsOld(labels, toState) == Append(labels, "state:" \o toState)

\* The end of transition(): drop every state:* label, push state:<toState>.
updateStateLabel(labels, toState) ==
    Append(filterNot(labels, "state:"), "state:" \o toState)

invalidTransitionMessage(from, to) == "Invalid transition from " \o from \o " to " \o to

\* transition() that records the rejected transitions on the history too.
transition_recordsRejected(m, toState, reason, fail) ==
    LET previousState == m.issue.state
        rec == [from |-> previousState, to |-> toState, reason |-> reason]
        s0 == [m EXCEPT !.transitionHistory = Append(@, rec)]
        s1 == emit([s0 EXCEPT !.issue.state = toState], "state-changed", rec)
        s2 == assignLabels(s1, updateStateLabel(s1.issue.labels, toState))
    IN  IF toState \notin validTransitions[m.issue.state]
        THEN threw(s0, invalidTransitionMessage(m.issue.state, toState))
        ELSE IF fail THEN threw(s1, SubscriberError) ELSE returned(s2)

\* transition(toState, reason). fail: a subscriber of state-changed throws.
transition(m, toState, reason, fail) ==
    IF toState \notin validTransitions[m.issue.state]
    THEN threw(m, invalidTransitionMessage(m.issue.state, toState))
    ELSE LET previousState == m.issue.state
             rec == [from |-> previousState, to |-> toState, reason |-> reason]
             s1 == emit([m EXCEPT !.issue.state = toState,
                                  !.transitionHistory = Append(@, rec)],
                        "state-changed", rec)
             s2 == assignLabels(s1, updateStateLabel(s1.issue.labels, toState))
         IN  IF fail THEN threw(s1, SubscriberError) ELSE returned(s2)

\* A copy of the table in which nothing leaves the state closed.
canTransitionTable_closedIsFinal ==
    [new         |-> {"pending", "closed"},
     pending     |-> {"in_progress", "closed"},
     in_progress |-> {"review", "pending", "closed"},
     review      |-> {"done", "in_progress", "closed"},
     done        |-> {"closed", "in_progress"},
     closed      |-> {}]

\* canTransitionTo keeps its own copy of the table.
canTransitionTable ==
    [new         |-> {"pending", "closed"},
     pending     |-> {"in_progress", "closed"},
     in_progress |-> {"review", "pending", "closed"},
     review      |-> {"done", "in_progress", "closed"},
     done        |-> {"closed", "in_progress"},
     closed      |-> {"pending"}]

canTransitionTo(m, toState) == toState \in canTransitionTable[m.issue.state]

\* getHistory(): [...this.transitionHistory].
getHistory(m) == [i \in 1..Len(m.transitionHistory) |-> m.transitionHistory[i]]

\* The values the IssueFSM hands to its callers and subscribers, part by part,
\* with the object each part is: an object made for the caller ("copy") or an
\* object the IssueFSM goes on using.
\*   getIssue()            { ...this.issue }: a new object, the labels array shared
\*   getHistory()          [...this.transitionHistory]: a new array of the same records
\*   state-changed         the record that was pushed on the history
\*   labels-updated        { labels: this.issue.labels }
\*   ready-for-processing  this.issue
handedOut ==
    {[value |-> "getIssue()", part |-> "field", is |-> "copy"],
     [value |-> "getIssue()", part |-> "labels", is |-> "this.issue.labels"],
     [value |-> "getHistory()", part |-> "list", is |-> "copy"],
     [value |-> "getHistory()", part |-> "record", is |-> "this.transitionHistory[i]"],
     [value |-> "state-changed", part |-> "record", is |-> "this.transitionHistory[i]"],
     [value |-> "labels-updated", part |-> "field", is |-> "copy"],
     [value |-> "labels-updated", part |-> "labels", is |-> "this.issue.labels"],
     [value |-> "ready-for-processing", part |-> "field", is |-> "this.issue"],
     [value |-> "ready-for-processing", part |-> "labels", is |-> "this.issue.labels"]}

\* The label a caller pushes and the state a caller writes into what it holds.
InjectedLabel == "injected"
InjectedState == "closed"

\* The caller can hold the value: an accessor can be called at any time, a
\* payload is held by a subscriber of an event the last call emitted.
held(m, h) ==
    CASE h.value = "getIssue()" -> TRUE
      [] h.value = "getHistory()" -> h.part = "list" \/ m.transitionHistory # <<>>
      [] OTHER -> \E k \in 1..Len(emitted) : emitted[k].event = h.value

\* The records of the history that a held value gives access to.
heldRecords(m, h) ==
    IF h.value = "state-changed" THEN {Len(m.transitionHistory)}
    ELSE 1..Len(m.transitionHistory)

\* A write through a part of a held value: a push on a label array, an
\* assignment to a field of an object or of record i.
write(m, h, i) ==
    CASE h.is = "this.issue.labels" ->
            [m EXCEPT !.issue.labels = Append(@, InjectedLabel),
                      !.caller.record.labels =
                          IF m.caller.sharesLabels THEN Append(@, InjectedLabel) ELSE @]
      [] h.is = "this.issue" -> [m EXCEPT !.issue.state = InjectedState]
      [] h.is = "this.transitionHistory[i]" -> [m EXCEPT !.transitionHistory[i].to = InjectedState]
      [] OTHER -> m

\* The IssueFSM at the start of a call: its fields, no emit yet, no outcome yet.
machine == [issue |-> issue, transitionHistory |-> transitionHistory,
            emitted |-> <<>>, outcome |-> NoValue, error |-> NoValue,
            caller |-> caller]

\* The record the constructor was given, as its owner sees it after a call
\* that ended as m: where this.issue is that very object, what this.issue holds.
callerAfter(m) ==
    IF m.caller.sharesFields THEN [m.caller EXCEPT !.record = m.issue] ELSE m.caller

\* A constructor that keeps the record it is given: this.issue = issue.
constructor_keepsReference(data) ==
    [issue |-> data, transitionHistory |-> <<>>, emitted |-> <<>>,
     outcome |-> NoValue, error |-> NoValue,
     caller |-> [given |-> data, record |-> data,
                 sharesFields |-> TRUE, sharesLabels |-> TRUE]]

\* constructor(issue): this.issue = { ...issue }, a new object with the fields
\* of the record it was given; the labels array is the same array.
constructor(data) ==
    [issue |-> data, transitionHistory |-> <<>>, emitted |-> <<>>,
     outcome |-> NoValue, error |-> NoValue,
     caller |-> [given |-> data, record |-> data,
                 sharesFields |-> FALSE, sharesLabels |-> TRUE]]

\* The IssueFSM after a call that ended as m.
finish(m, call) ==
    /\ issue' = m.issue
    /\ transitionHistory' = m.transitionHistory
    /\ emitted' = m.emitted
    /\ lastCall' = call @@ [labelsBefore |-> issue.labels, outcome |-> m.outcome,
                            error |-> m.error, returns |-> <<>>]
    /\ caller' = callerAfter(m)

\* new IssueFSM(data): a copy of the record, an empty history.
constructed(data) ==
    /\ issue = constructor(data).issue
    /\ caller = constructor(data).caller
    /\ transitionHistory = <<>>
    /\ emitted = <<>>
    /\ lastCall = [op |-> "constructor", arg |-> NoValue, reason |-> NoValue,
                   from |-> NoValue, failAt |-> 0, labelsBefore |-> data.labels,
                   outcome |-> "returned", error |-> NoValue, returns |-> <<>>]

Initialize ==
    /\ Len(transitionHistory) < MaxHistory
    /\ \E failAt \in 0..4 :
          \E m \in {initialize(machine, failAt)} :
             finish(m, [op |-> "initialize", arg |-> NoValue, reason |-> NoValue,
                        from |-> issue.state, failAt |-> failAt])
    /\ UNCHANGED <<dagVars, pipelineVars>>

Transition ==
    /\ Len(transitionHistory) < MaxHistory
    /\ \E toState \in IssueState, reason \in Reasons, fail \in BOOLEAN :
          \E m \in {transition(machine, toState, reason, fail)} :
             finish(m, [op |-> "transition", arg |-> toState, reason |-> reason,
                        from |-> issue.state, failAt |-> IF fail THEN 1 ELSE 0])
    /\ UNCHANGED <<dagVars, pipelineVars>>

CanTransitionTo ==
    \E toState \in IssueState :
        /\ issue' = issue
        /\ transitionHistory' = transitionHistory
        /\ emitted' = <<>>
        /\ lastCall' = [op |-> "canTransitionTo", arg |-> toState, reason |-> NoValue,
                        from |-> issue.state, failAt |-> 0,
                        labelsBefore |-> issue.labels,
                        outcome |-> "returned", error |-> NoValue,
                        returns |-> <<canTransitionTo(machine, toState)>>]
        /\ caller' = caller
        /\ UNCHANGED <<dagVars, pipelineVars>>

\* new IssueFSM({ ...fsm.getIssue(), state: 'new' }): a caller hands the record
\* that a completed initialize() produced, its state set back to new, to a new
\* IssueFSM.
Reconstruct ==
    /\ lastCall.op = "initialize" /\ lastCall.from = "new"
    /\ lastCall.outcome = "returned"
    /\ \E data \in {[getIssue(machine) EXCEPT !.state = "new"]} :
          /\ issue' = constructor(data).issue
          /\ caller' = constructor(data).caller
          /\ transitionHistory' = <<>>
          /\ emitted' = <<>>
          /\ lastCall' = [op |-> "constructor", arg |-> NoValue, reason |-> NoValue,
                          from |-> issue.state, failAt |-> 0,
                          labelsBefore |-> data.labels,
                          outcome |-> "returned", error |-> NoValue, returns |-> <<>>]
    /\ UNCHANGED <<dagVars, pipelineVars>>

\* A caller or a subscriber writes into a value the IssueFSM handed to it.
Mutate ==
    /\ InjectedLabel \notin Range(issue.labels)
    /\ \E h \in handedOut :
          /\ held(machine, h)
          /\ \E i \in (IF h.is = "this.transitionHistory[i]"
                        THEN heldRecords(machine, h) ELSE {0}) :
                \E m \in {write(machine, h, i)} :
                   /\ issue' = m.issue
                   /\ caller' = callerAfter(m)
                   /\ transitionHistory' = m.transitionHistory
                   /\ emitted' = emitted
                   /\ lastCall' = [op |-> "mutate", arg |-> h.value, reason |-> h.part,
                                   from |-> issue.state, failAt |-> 0,
                                   labelsBefore |-> issue.labels,
                                   outcome |-> "returned", error |-> NoValue,
                                   returns |-> <<>>]
    /\ UNCHANGED <<dagVars, pipelineVars>>

\* The CoordinatorAgent is not used by the IssueFSM: its variables stay idle.
IdleDAG ==
    /\ response = NoValue /\ tasks = <<>> /\ dag = <<>> /\ executionPlan = <<>>
    /\ comments = <<>> /\ addedLabels = <<>> /\ result = <<>>

\* new AgentPipeline(): no agent, no call made, nothing emitted.
IdlePipeline == agents = <<>> /\ calls = <<>> /\ pipelineEmitted = <<>>

InitFSM == (\E data \in IssueData : constructed(data)) /\ IdleDAG /\ IdlePipeline
NextFSM == Initialize \/ Transition \/ CanTransitionTo
SpecFSM == InitFSM /\ [][NextFSM]_vars

NextHandedOut == Initialize \/ Transition \/ Mutate
SpecHandedOut == InitFSM /\ [][NextHandedOut]_vars

InitClassify ==
    (\E data \in ClassifiedIssueData : constructed(data)) /\ IdleDAG /\ IdlePipeline
NextClassify == Initialize \/ Reconstruct
SpecClassify == InitClassify /\ [][NextClassify]_vars
(***************************************************************************)
(* CoordinatorAgent                                                        *)
(***************************************************************************)
\* The identifier of the i-th task of a decomposition. buildDAG compares
\* identifiers for equality only, so a list of tasks with unique identifiers is
\* one of these lists up to the names; the dependencies are free, so a task may
\* depend on tasks listed before it, after it, on itself and on identifiers
\* that no listed task has.
taskId(i) == "t" \o ToString(i)
TaskIds == {taskId(i) : i \in 1..MaxTasks}

\* The dependency lists of n entries (an identifier may repeat).
DependencyLists(n) == [1..n -> TaskIds]

\* The lists of k dependency lists that hold at most n entries together.
RECURSIVE DependencyTables(_, _)
DependencyTables(k, n) ==
    IF k = 0 THEN {<<>>}
    ELSE UNION {{Append(rest, d) : rest \in DependencyTables(k - 1, n - len),
                                   d \in DependencyLists(len)} : len \in 0..n}

\* Task[]: buildDAG reads id and dependencies, postResults renders the rest.
TaskLists ==
    {[i \in 1..Len(deps) |-> [id |-> taskId(i), dependencies |-> deps[i]]] :
        deps \in UNION {DependencyTables(k, MaxDependencies) : k \in 0..MaxTasks}}

\* The fallback decomposition of decomposeTasks.
fallbackTasks ==
    <<[id |-> "task-1", dependencies |-> <<>>],
      [id |-> "task-2", dependencies |-> <<"task-1">>],
      [id |-> "task-3", dependencies |-> <<"task-2">>]>>

\* tasks.find((t) => t.id === taskId) finds a task.
found(ts, id) == \E i \in 1..Len(ts) : ts[i].id = id

\* tasks.find((t) => t.id === taskId) where it finds one: the first such task.
find(ts, id) ==
    ts[CHOOSE i \in 1..Len(ts) :
           /\ ts[i].id = id
           /\ \A j \in 1..(i - 1) : ts[j].id # id]

\* A push that replaces what the level holds.
pushAt_replaces(levels, level, id) ==
    LET grown == IF Len(levels) > level THEN levels
                 ELSE levels \o [i \in 1..(level + 1 - Len(levels)) |-> <<>>]
    IN  [grown EXCEPT ![level + 1] = <<id>>]

\* while (levels.length <= level) levels.push([]); levels[level].push(taskId).
\* levels[level] of the code is levels[level + 1] here.
pushAt(levels, level, id) ==
    LET grown == IF Len(levels) > level THEN levels
                 ELSE levels \o [i \in 1..(level + 1 - Len(levels)) |-> <<>>]
    IN  [grown EXCEPT ![level + 1] = Append(@, id)]

\* The closure visit of buildDAG, on the traversal state
\* st = [levels, visited, inProgress, hasCycles].
RECURSIVE visit(_, _, _, _)
RECURSIVE visitDependencies(_, _, _, _)
\* A traversal with one mark: a task counts as visited from the moment it is
\* entered, and a visited task is skipped before the in-progress test.
visit_singleMark(ts, st, id, level) ==
    IF id \in st.visited THEN st
    ELSE IF id \in st.inProgress THEN [st EXCEPT !.hasCycles = TRUE]
    ELSE LET s1 == [st EXCEPT !.inProgress = @ \cup {id}, !.visited = @ \cup {id},
                              !.expanded = Append(@, id)]
             s2 == IF found(ts, id)
                   THEN visitDependencies(ts, s1, find(ts, id).dependencies, level + 1)
                   ELSE s1
         IN  [s2 EXCEPT !.inProgress = @ \ {id},
                        !.levels = pushAt(@, level, id)]

\* A traversal without the visited check.
visit_revisits(ts, st, id, level) ==
    IF id \in st.inProgress THEN [st EXCEPT !.hasCycles = TRUE]
    ELSE LET s1 == [st EXCEPT !.inProgress = @ \cup {id}, !.expanded = Append(@, id)]
             s2 == IF found(ts, id)
                   THEN visitDependencies(ts, s1, find(ts, id).dependencies, level + 1)
                   ELSE s1
         IN  [s2 EXCEPT !.visited = @ \cup {id},
                        !.inProgress = @ \ {id},
                        !.levels = pushAt(@, level, id)]

visit(ts, st, id, level) ==
    IF id \in st.inProgress THEN [st EXCEPT !.hasCycles = TRUE]
    ELSE IF id \in st.visited THEN st
    ELSE LET s1 == [st EXCEPT !.inProgress = @ \cup {id}, !.expanded = Append(@, id)]
             s2 == IF found(ts, id)
                   THEN visitDependencies(ts, s1, find(ts, id).dependencies, level + 1)
                   ELSE s1
         IN  [s2 EXCEPT !.visited = @ \cup {id},
                        !.inProgress = @ \ {id},
                        !.levels = pushAt(@, level, id)]

\* for (const dep of task.dependencies) visit(dep, level + 1)
visitDependencies(ts, st, deps, level) ==
    IF deps = <<>> THEN st
    ELSE visitDependencies(ts, visit(ts, st, Head(deps), level), Tail(deps), level)

\* for (const task of tasks) if (!visited.has(task.id)) visit(task.id, 0)
RECURSIVE visitAll(_, _, _)
visitAll(ts, st, i) ==
    IF i > Len(ts) THEN st
    ELSE visitAll(ts,
                  IF ts[i].id \notin st.visited THEN visit(ts, st, ts[i].id, 0) ELSE st,
                  i + 1)

\* Array.prototype.reverse.
reverse(seq) == [i \in 1..Len(seq) |-> seq[Len(seq) + 1 - i]]

\* The traversal of buildDAG: the closure's variables after the loop over the
\* tasks. expanded records, in order, the identifiers that passed both checks
\* of visit and had their dependencies looked up.
traversal(ts) ==
    visitAll(ts, [levels |-> <<>>, visited |-> {}, inProgress |-> {},
                  hasCycles |-> FALSE, expanded |-> <<>>], 1)

buildDAG(ts) ==
    LET st == traversal(ts)
    IN  [tasks |-> ts, levels |-> reverse(st.levels), hasCycles |-> st.hasCycles]

\* Array.prototype.join.
RECURSIVE join(_, _)
join(seq, sep) ==
    IF seq = <<>> THEN ""
    ELSE IF Len(seq) = 1 THEN seq[1]
    ELSE seq[1] \o sep \o join(Tail(seq), sep)

\* A rendering that marks every level as parallel.
planLine_marksEveryLevel(level, i) ==
    "Level " \o ToString(i) \o ": " \o join(level, ", ") \o " (parallel)"

\* One line of createExecutionPlan; i counts the levels from 1.
planLine(level, i) ==
    IF Len(level) = 1
    THEN "Level " \o ToString(i) \o ": " \o level[1]
    ELSE "Level " \o ToString(i) \o ": " \o join(level, ", ") \o " (parallel)"

createExecutionPlan(d) == [i \in 1..Len(d.levels) |-> planLine(d.levels[i], i)]
\* What the text-generation service answers to analyzeComplexity.
Answers == {"small", " XLarge ", "hard"}
ComplexityType == {"small", "medium", "large", "xlarge"}

\* What the text-generation service answers to decomposeTasks, by what
\* decomposeTasks makes of it: no ```json block; a block JSON.parse rejects; a
\* block that parses to an object with a task list; one that parses to an
\* object without a tasks field.
Responses == {"no-json-block", "invalid-json", "json", "json-without-tasks"}

PortError == "port failed"
SyntaxError == "SyntaxError: Unexpected token in JSON"
TypeError == "TypeError: tasks is not iterable"
CircularError == "Circular dependency detected in task graph"

\* String.prototype.trim, for the blanks of Answers.
RECURSIVE trim(_)
trim(s) ==
    IF Len(s) > 0 /\ SubSeq(s, 1, 1) = " " THEN trim(SubSeq(s, 2, Len(s)))
    ELSE IF Len(s) > 0 /\ SubSeq(s, Len(s), Len(s)) = " " THEN trim(SubSeq(s, 1, Len(s) - 1))
    ELSE s

\* analyzeComplexity, from the text of the answer on.
analyzeComplexity(answer) ==
    LET complexity == toLowerCase(trim(answer))
    IN  IF complexity \in ComplexityType THEN complexity ELSE "medium"

\* The comment postResults posts, by what it renders.
resultsComment(complexity, d, plan) ==
    [kind |-> "completed", complexity |-> complexity, tasks |-> Len(d.tasks),
     levels |-> Len(d.levels), plan |-> plan]

\* A caller that does not look at the cycle flag.
cycleDetected_ignored(d) == FALSE

\* Step 4 of execute: if (dag.hasCycles) throw.
cycleDetected(d) == d.hasCycles

\* The catch block of execute: post the failure, rethrow. catchFails: posting fails.
executeCatch(e, error, catchFails) ==
    IF catchFails
    THEN [e EXCEPT !.result = <<[outcome |-> "threw", error |-> PortError]>>]
    ELSE [e EXCEPT !.comments = Append(@, [kind |-> "failed", message |-> error]),
                   !.result = <<[outcome |-> "threw", error |-> error]>>]

\* execute(issue), as what it leaves behind: the comments posted, the labels
\* added, the DAG and the plan where it computed them, and how it ended.
\* failAt: which call on a port fails (1 the first comment, 2 analyzeComplexity,
\* 3 decomposeTasks, 4 postResults, 5 addLabels, 0 none).
execute(resp, ts, answer, failAt, catchFails) ==
    LET e0 == [comments |-> <<>>, addedLabels |-> <<>>, dag |-> <<>>,
               executionPlan |-> <<>>, result |-> <<>>]
        e1 == [e0 EXCEPT !.comments = Append(@, [kind |-> "started"])]
        complexity == analyzeComplexity(answer)
        decomposed == IF resp = "no-json-block" THEN fallbackTasks ELSE ts
        d == buildDAG(decomposed)
        e4 == [e1 EXCEPT !.dag = <<d>>]
        plan == createExecutionPlan(d)
        e6 == [e4 EXCEPT !.executionPlan = <<plan>>]
        e7 == [e6 EXCEPT !.comments = Append(@, resultsComment(complexity, d, plan))]
        e8 == [e7 EXCEPT !.addedLabels = <<"complexity:" \o complexity, "agent:coordinator">>]
    IN  CASE failAt = 1 -> executeCatch(e0, PortError, catchFails)
          [] failAt = 2 -> executeCatch(e1, PortError, catchFails)
          [] failAt = 3 -> executeCatch(e1, PortError, catchFails)
          [] resp = "invalid-json" -> executeCatch(e1, SyntaxError, catchFails)
          [] resp = "json-without-tasks" -> executeCatch(e1, TypeError, catchFails)
          [] cycleDetected(d) -> executeCatch(e4, CircularError, catchFails)
          [] failAt = 4 -> executeCatch(e6, PortError, catchFails)
          [] failAt = 5 -> executeCatch(e7, PortError, catchFails)
          [] OTHER -> [e8 EXCEPT !.result =
                          <<[outcome |-> "returned", success |-> TRUE,
                             complexity |-> complexity, dag |-> d,
                             executionPlan |-> plan]>>]

\* The IssueFSM is not used by the CoordinatorAgent: its variables stay idle.
IdleFSM == constructed([id |-> "test-123", title |-> "", body |-> "", state |-> "new",
                        priority |-> NoValue, labels |-> <<>>, assignee |-> NoValue])

\* A CoordinatorAgent, the answer decomposeTasks will get, nothing called yet.
InitDAG ==
    /\ response \in Responses
    /\ tasks \in IF response = "json" THEN TaskLists ELSE {<<>>}
    /\ dag = <<>> /\ executionPlan = <<>>
    /\ comments = <<>> /\ addedLabels = <<>> /\ result = <<>>
    /\ IdleFSM
    /\ IdlePipeline

\* buildDAG(tasks) on its own.
BuildDAG ==
    /\ response = "json" /\ result = <<>> /\ dag = <<>>
    /\ dag' = <<buildDAG(tasks)>>
    /\ UNCHANGED <<response, tasks, executionPlan, comments, addedLabels, result>>
    /\ UNCHANGED <<fsmVars, pipelineVars>>

\* createExecutionPlan(dag) on its own.
CreateExecutionPlan ==
    /\ result = <<>> /\ dag # <<>> /\ executionPlan = <<>>
    /\ executionPlan' = <<createExecutionPlan(dag[1])>>
    /\ UNCHANGED <<response, tasks, dag, comments, addedLabels, result>>
    /\ UNCHANGED <<fsmVars, pipelineVars>>

Execute ==
    /\ result = <<>> /\ dag = <<>>
    /\ \E answer \in Answers, failAt \in 0..5, catchFails \in BOOLEAN :
          \E e \in {execute(response, tasks, answer, failAt, catchFails)} :
             /\ dag' = e.dag
             /\ executionPlan' = e.executionPlan
             /\ comments' = e.comments
             /\ addedLabels' = e.addedLabels
             /\ result' = e.result
    /\ UNCHANGED <<response, tasks>>
    /\ UNCHANGED <<fsmVars, pipelineVars>>

NextDAG == BuildDAG \/ CreateExecutionPlan \/ Execute
SpecDAG == InitDAG /\ [][NextDAG]_vars

(***************************************************************************)
(* AgentPipeline                                                           *)
(* this.fsm is the IssueFSM of the variables issue, transitionHistory,     *)
(* emitted and lastCall: processIssue assigns it before it reads it, and   *)
(* an IssueFSM that this.fsm no longer names is never called again.        *)
(* processIssue is an async function: it runs up to an await, and goes on  *)
(* in a later step when the awaited call has settled.                      *)
(***************************************************************************)
\* The agents that can be registered, by name: Agent1 and Agent2 return a copy
\* of the record with one more label, ErrorAgent rejects.
Agent == {"Agent1", "Agent2", "ErrorAgent"}
AgentError == "Agent processing failed"

\* agent.process(issue), once settled.
process(agent, i) ==
    CASE agent = "Agent1" ->
            [outcome |-> "returned", error |-> NoValue,
             value |-> [i EXCEPT !.labels = Append(@, "agent1-processed")]]
      [] agent = "Agent2" ->
            [outcome |-> "returned", error |-> NoValue,
             value |-> [i EXCEPT !.labels = Append(@, "agent2-processed")]]
      [] OTHER ->
            [outcome |-> "threw", error |-> AgentError, value |-> i]

\* The records handed to processIssue.
PipelineIssueData ==
    {[id |-> "test-456", title |-> "Test Pipeline Issue", body |-> "Testing agent pipeline",
      state |-> "new", priority |-> NoValue, labels |-> <<>>, assignee |-> NoValue],
     [id |-> "test-789", title |-> "Critical production bug", body |-> "",
      state |-> "new", priority |-> "low", labels |-> <<"bug">>, assignee |-> NoValue],
     [id |-> "test-000", title |-> "Fix the docs", body |-> "",
      state |-> "in_progress", priority |-> NoValue, labels |-> <<"state:in_progress">>,
      assignee |-> NoValue]}

\* The AgentPipeline at the start of a step.
pipeline == [agents |-> agents, calls |-> calls, emitted |-> pipelineEmitted]

\* this.emit(event, payload) of the AgentPipeline, made by call c (0: by none).
pipelineEmit(p, c, event, payload) ==
    [p EXCEPT !.emitted = Append(@, [event |-> event, payload |-> payload, call |-> c])]

\* setupFSMListeners: the pipeline event each IssueFSM event is forwarded as.
forwardedAs ==
    [e \in {"state-changed", "priority-assigned", "labels-updated",
            "ready-for-processing", "error"} |->
        CASE e = "state-changed" -> "issue-state-changed"
          [] e = "priority-assigned" -> "issue-priority-assigned"
          [] e = "labels-updated" -> "issue-labels-updated"
          [] e = "ready-for-processing" -> "issue-ready"
          [] OTHER -> "fsm-error"]

\* new IssueFSM(issue) as processIssue makes it: a copy of the record, an empty
\* history, no listener.
newIssueFSM(data) == constructor(data) @@ [listeners |-> 0]

\* Listeners that stay subscribed from one processIssue call to the next.
setupFSMListeners_keepsEarlier(p, m) == [m EXCEPT !.listeners = Len(p.calls) + 1]

\* setupFSMListeners(): this.fsm.on(event, ...), one more forwarding listener
\* for each of the five events of this.fsm.
setupFSMListeners(p, m) == [m EXCEPT !.listeners = @ + 1]

\* One event of the IssueFSM reaches each of its forwarding listeners in turn.
RECURSIVE forwardOne(_, _, _, _)
forwardOne(p, c, e, listeners) ==
    IF listeners = 0 THEN p
    ELSE forwardOne(pipelineEmit(p, c, forwardedAs[e.event], e.payload), c, e, listeners - 1)

\* Listeners that forward the events of an IssueFSM last first.
RECURSIVE forward_lastFirst(_, _, _, _)
forward_lastFirst(p, c, events, listeners) ==
    IF events = <<>> THEN p
    ELSE forwardOne(forward_lastFirst(p, c, Tail(events), listeners),
                    c, Head(events), listeners)

\* The pipeline events that the listeners emit for the events of an IssueFSM.
RECURSIVE forward(_, _, _, _)
forward(p, c, events, listeners) ==
    IF events = <<>> THEN p
    ELSE forward(forwardOne(p, c, Head(events), listeners), c, Tail(events), listeners)

\* A processIssue call that has just been made: suspended in await initialize().
called(data, m) ==
    [input |-> data, pc |-> "initialize",
     initialized |-> [outcome |-> m.outcome, error |-> m.error, issue |-> getIssue(m)],
     processedIssue |-> <<>>, index |-> 0, detached |-> FALSE, snapshot |-> <<>>,
     received |-> <<>>, produced |-> <<>>, value |-> <<>>, error |-> NoValue]

\* The array that the for...of loop of call c iterates: this.agents, unless
\* clearAgents has replaced this.agents since the loop began.
iterated(p, c) == IF p.calls[c].detached THEN p.calls[c].snapshot ELSE p.agents

\* The catch block of processIssue: emit pipeline-error, rethrow.
processIssueCatch(p, c, error) ==
    pipelineEmit([p EXCEPT !.calls[c].pc = "threw", !.calls[c].error = error],
                 c, "pipeline-error", [error |-> error])

\* The head of the loop over the agents: start the next agent and suspend in
\* await agent.process(), or leave the loop, emit pipeline-complete and return.
nextAgent(p, c) ==
    LET call == p.calls[c]
        processedIssue == call.processedIssue[1]
    IN  IF call.index < Len(iterated(p, c))
        THEN LET agent == iterated(p, c)[call.index + 1]
             IN  pipelineEmit([p EXCEPT !.calls[c].pc = "agent",
                                        !.calls[c].index = @ + 1,
                                        !.calls[c].received = Append(@, processedIssue)],
                              c, "agent-start",
                              [agent |-> agent, issue |-> processedIssue.id])
        ELSE pipelineEmit([p EXCEPT !.calls[c].pc = "returned",
                                    !.calls[c].value = <<processedIssue>>],
                          c, "pipeline-complete", processedIssue)

\* A processIssue that goes into its loop whatever initialize() did.
afterInitialize_ignoresFailure(p, c, m) ==
    nextAgent([p EXCEPT !.calls[c].processedIssue = <<getIssue(m)>>], c)

\* processIssue from the end of await initialize(): rethrown into the catch
\* block, or getIssue() on this.fsm and into the loop.
afterInitialize(p, c, m) ==
    IF p.calls[c].initialized.outcome = "threw"
    THEN processIssueCatch(p, c, p.calls[c].initialized.error)
    ELSE nextAgent([p EXCEPT !.calls[c].processedIssue = <<getIssue(m)>>], c)

\* A loop body that goes on with the record it gave to the agent.
afterAgent_keepsInput(p, c) ==
    LET call == p.calls[c]
        agent == iterated(p, c)[call.index]
        r == process(agent, call.processedIssue[1])
    IN  IF r.outcome = "threw"
        THEN processIssueCatch(p, c, r.error)
        ELSE nextAgent(pipelineEmit([p EXCEPT !.calls[c].produced = Append(@, r.value)],
                                    c, "agent-complete",
                                    [agent |-> agent, issue |-> call.processedIssue[1].id]),
                       c)

\* A loop body that goes on with the next agent when an agent has failed.
afterAgent_skipsFailed(p, c) ==
    LET call == p.calls[c]
        agent == iterated(p, c)[call.index]
        r == process(agent, call.processedIssue[1])
    IN  IF r.outcome = "threw"
        THEN nextAgent(pipelineEmit(p, c, "pipeline-error", [error |-> r.error]), c)
        ELSE nextAgent(pipelineEmit([p EXCEPT !.calls[c].processedIssue = <<r.value>>,
                                              !.calls[c].produced = Append(@, r.value)],
                                    c, "agent-complete",
                                    [agent |-> agent, issue |-> r.value.id]),
                       c)

\* processIssue from the end of await agent.process(): rethrown into the catch
\* block, or the record returned is kept, agent-complete emitted and the loop
\* goes on.
afterAgent(p, c) ==
    LET call == p.calls[c]
        agent == iterated(p, c)[call.index]
        r == process(agent, call.processedIssue[1])
    IN  IF r.outcome = "threw"
        THEN processIssueCatch(p, c, r.error)
        ELSE nextAgent(pipelineEmit([p EXCEPT !.calls[c].processedIssue = <<r.value>>,
                                              !.calls[c].produced = Append(@, r.value)],
                                    c, "agent-complete",
                                    [agent |-> agent, issue |-> r.value.id]),
                       c)

\* registerAgent(agent).
registerAgent(p, agent) ==
    pipelineEmit([p EXCEPT !.agents = Append(@, agent)], 0,
                 "agent-registered", [name |-> agent])

\* clearAgents(): this.agents = [], a new array; a loop that is iterating the
\* old array keeps it.
clearAgents(p) ==
    pipelineEmit([p EXCEPT !.agents = <<>>,
                           !.calls = [c \in DOMAIN p.calls |->
                               IF p.calls[c].pc = "agent" /\ ~p.calls[c].detached
                               THEN [p.calls[c] EXCEPT !.detached = TRUE,
                                                       !.snapshot = p.agents]
                               ELSE p.calls[c]]],
                 0, "agents-cleared", NoValue)

\* A getAgents() that returns the array the pipeline keeps.
getAgents_shared(p) == [list |-> p.agents, is |-> "this.agents"]

\* getAgents(): [...this.agents], a new array of the same agents.
getAgents(p) == [list |-> p.agents, is |-> "copy"]

\* A caller pushes an agent on a list it holds.
writeAgents(p, list, agent) ==
    IF list.is = "this.agents" THEN [p EXCEPT !.agents = Append(@, agent)] ELSE p

\* The AgentPipeline after a step that ended as p.
finishPipeline(p) ==
    /\ agents' = p.agents
    /\ calls' = p.calls
    /\ pipelineEmitted' = p.emitted

\* No processIssue call is in flight.
Quiet == \A c \in DOMAIN calls : calls[c].pc \in {"returned", "threw"}

\* The number of times the pipeline has emitted an event.
emittedTimes(event) ==
    Cardinality({k \in DOMAIN pipelineEmitted : pipelineEmitted[k].event = event})

RegisterAgent ==
    /\ emittedTimes("agent-registered") < MaxAgents
    /\ \E agent \in Agent : finishPipeline(registerAgent(pipeline, agent))
    /\ UNCHANGED <<fsmVars, dagVars>>

ClearAgents ==
    /\ emittedTimes("agents-cleared") < MaxClears
    /\ finishPipeline(clearAgents(pipeline))
    /\ UNCHANGED <<fsmVars, dagVars>>

\* A caller pushes an agent on the list that getAgents() returned to it.
MutateAgents ==
    /\ \E agent \in Agent :
          finishPipeline(writeAgents(pipeline, getAgents(pipeline), agent))
    /\ UNCHANGED <<fsmVars, dagVars>>

\* processIssue(data) up to await this.fsm.initialize(): a new IssueFSM is
\* assigned to this.fsm, its events are forwarded, initialize() runs.
\* failAt = k > 0: a subscriber of the k-th event forwarded throws (a record
\* that is not new has no event to forward).
ProcessIssue ==
    /\ Len(calls) < MaxCalls
    /\ \E data \in PipelineIssueData :
       \E failAt \in (IF data.state = "new" THEN 0..4 ELSE {0}) :
          \E m \in {initialize(setupFSMListeners(pipeline, newIssueFSM(data)), failAt)} :
             /\ issue' = m.issue
             /\ caller' = callerAfter(m)
             /\ transitionHistory' = m.transitionHistory
             /\ emitted' = m.emitted
             /\ lastCall' = [op |-> "initialize", arg |-> NoValue, reason |-> NoValue,
                             from |-> data.state, failAt |-> failAt,
                             labelsBefore |-> data.labels,
                             outcome |-> m.outcome, error |-> m.error, returns |-> <<>>]
             /\ finishPipeline(forward([pipeline EXCEPT !.calls = Append(@, called(data, m))],
                                       Len(calls) + 1, m.emitted, m.listeners))
    /\ UNCHANGED dagVars

\* A processIssue call goes on after await this.fsm.initialize().
AfterInitialize ==
    /\ \E c \in DOMAIN calls :
          /\ calls[c].pc = "initialize"
          /\ finishPipeline(afterInitialize(pipeline, c, machine))
    /\ UNCHANGED <<fsmVars, dagVars>>

\* A processIssue call goes on after await agent.process().
AfterAgent ==
    /\ \E c \in DOMAIN calls :
          /\ calls[c].pc = "agent"
          /\ finishPipeline(afterAgent(pipeline, c))
    /\ UNCHANGED <<fsmVars, dagVars>>

\* The calls on the pipeline when no processIssue call is in flight.
RegisterAgentWhenQuiet == Quiet /\ RegisterAgent
ClearAgentsWhenQuiet == Quiet /\ ClearAgents
ProcessIssueWhenQuiet == Quiet /\ ProcessIssue
MutateAgentsWhenQuiet == Quiet /\ MutateAgents

\* A pipeline whose callers await each processIssue call before they call the
\* pipeline again.
InitPipeline == IdleFSM /\ IdleDAG /\ IdlePipeline
NextPipeline ==
    \/ RegisterAgentWhenQuiet
    \/ ClearAgentsWhenQuiet
    \/ ProcessIssueWhenQuiet
    \/ MutateAgentsWhenQuiet
    \/ AfterInitialize
    \/ AfterAgent
SpecPipeline == InitPipeline /\ [][NextPipeline]_vars

\* A pipeline whose callers call it at any time: a processIssue call may be
\* started, and an agent registered or the agents cleared, while earlier
\* processIssue calls are suspended in await.
NextOverlap ==
    \/ RegisterAgent
    \/ ClearAgents
    \/ ProcessIssue
    \/ AfterInitialize
    \/ AfterAgent
SpecOverlap == InitPipeline /\ [][NextOverlap]_vars

\* The IssueFSM is the default specification.
Init == InitFSM
Next == NextFSM
Spec == SpecFSM
(***************************************************************************)
(* Claims                                                                  *)
(***************************************************************************)
\* The transition table as the specification states it (section 4.1).
TransitionTable ==
    {<<"new", "pending">>, <<"new", "closed">>,
     <<"pending", "in_progress">>, <<"pending", "closed">>,
     <<"in_progress", "review">>, <<"in_progress", "pending">>,
     <<"in_progress", "closed">>,
     <<"review", "done">>, <<"review", "in_progress">>, <<"review", "closed">>,
     <<"done", "closed">>, <<"done", "in_progress">>,
     <<"closed", "pending">>}

\* The step is a call of op on the IssueFSM.
Called(op) == lastCall'.op = op

\* C1: transition(t) in state s with (s,t) not an edge of the table (t = s
\* included) throws "Invalid transition from s to t", emits nothing and leaves
\* the record (state, labels and all) and the history as they were.
C1_InvalidTransitionRejected ==
    [][(Called("transition") /\ <<issue.state, lastCall'.arg>> \notin TransitionTable)
        => /\ lastCall'.outcome = "threw"
           /\ lastCall'.error = "Invalid transition from " \o issue.state
                                    \o " to " \o lastCall'.arg
           /\ emitted' = <<>>
           /\ issue' = issue
           /\ transitionHistory' = transitionHistory]_vars

\* A transition to the current state has been rejected.
C1_Witness ==
    /\ lastCall.op = "transition" /\ lastCall.outcome = "threw"
    /\ lastCall.from = "review" /\ lastCall.arg = "review"
    /\ lastCall.error = "Invalid transition from review to review"
    /\ issue.state = "review"

\* C2: transition(t, reason) in state s with (s,t) an edge of the table, when
\* no subscriber of state-changed throws, returns, sets the state to t, appends
\* exactly the record (s, t, reason) to the history and leaves a label list
\* that holds state:t and no other state:* label.
C2_ValidTransitionApplied ==
    [][(/\ Called("transition")
        /\ <<issue.state, lastCall'.arg>> \in TransitionTable
        /\ lastCall'.failAt = 0)
        => /\ lastCall'.outcome = "returned"
           /\ issue'.state = lastCall'.arg
           /\ transitionHistory' =
                 Append(transitionHistory,
                        [from |-> issue.state, to |-> lastCall'.arg,
                         reason |-> lastCall'.reason])
           /\ \E i \in 1..Len(issue'.labels) :
                 issue'.labels[i] = "state:" \o lastCall'.arg
           /\ \A i \in 1..Len(issue'.labels) :
                 startsWith(issue'.labels[i], "state:")
                    => issue'.labels[i] = "state:" \o lastCall'.arg]_vars

\* An accepted transition has replaced the two stale state labels of a record.
C2_Witness ==
    /\ lastCall.op = "transition" /\ lastCall.outcome = "returned"
    /\ lastCall.from = "review" /\ lastCall.arg = "in_progress"
    /\ lastCall.reason = "work started"
    /\ issue.labels = <<"docs", "state:in_progress">>
    /\ transitionHistory[Len(transitionHistory)] =
          [from |-> "review", to |-> "in_progress", reason |-> "work started"]
\* The identifiers of the listed tasks.
Listed(ts) == {ts[i].id : i \in 1..Len(ts)}

\* (a, b): listed task a declares listed task b as a dependency.
DependsOn(ts) ==
    {p \in Listed(ts) \X Listed(ts) :
        \E i \in 1..Len(ts) : ts[i].id = p[1] /\ p[2] \in Range(ts[i].dependencies)}

\* Some listed tasks form a dependency cycle: there is a non-empty set of
\* listed tasks each of which depends on a task of the set.
HasCycle(ts) ==
    LET R == DependsOn(ts)
    IN  \E S \in SUBSET Listed(ts) :
           /\ S # {}
           /\ \A a \in S : \E b \in S : <<a, b>> \in R

\* The (1-based) levels of d that hold the identifier.
LevelsOf(d, id) == {i \in 1..Len(d.levels) : id \in Range(d.levels[i])}

\* C3: for a task list that is acyclic, buildDAG reports no cycle and puts
\* every listed dependency of a task in a level strictly before the task's.
C3_DependenciesStrictlyEarlier ==
    (dag # <<>> /\ ~HasCycle(dag[1].tasks))
    => /\ ~dag[1].hasCycles
       /\ \A p \in DependsOn(dag[1].tasks) :
             \A i \in LevelsOf(dag[1], p[1]) :
                \E j \in LevelsOf(dag[1], p[2]) : j < i

\* C4: for a task list in which listed tasks form a dependency cycle,
\* buildDAG reports hasCycles = true.
C4_CycleReported ==
    (dag # <<>> /\ HasCycle(dag[1].tasks)) => dag[1].hasCycles

\* buildDAG has reported the cycle t2 -> t3 -> t2, entered from t1.
C4_Witness ==
    /\ dag # <<>> /\ dag[1].hasCycles
    /\ dag[1].tasks = <<[id |-> "t1", dependencies |-> <<"t2">>],
                        [id |-> "t2", dependencies |-> <<"t3">>],
                        [id |-> "t3", dependencies |-> <<"t2">>]>>

\* The chain of end-to-end scenario 3, listed in dependency order.
ChainTasks ==
    <<[id |-> "t1", dependencies |-> <<>>],
      [id |-> "t2", dependencies |-> <<"t1">>],
      [id |-> "t3", dependencies |-> <<"t2">>]>>

\* C5: for the chain t1, t2 on t1, t3 on t2 buildDAG yields the levels
\* [[t1],[t2],[t3]] without a cycle, and createExecutionPlan yields three
\* lines, none of them marked (parallel).
C5_ChainYieldsThreeLevels ==
    (dag # <<>> /\ dag[1].tasks = ChainTasks)
    => /\ dag[1].levels = <<<<"t1">>, <<"t2">>, <<"t3">>>>
       /\ ~dag[1].hasCycles
       /\ executionPlan # <<>>
             => /\ Len(executionPlan[1]) = 3
                /\ \A i \in 1..Len(executionPlan[1]) :
                      ~includes(executionPlan[1][i], "(parallel)")

\* C6: when buildDAG reports a cycle, execute throws the circular-dependency
\* error with no execution plan computed, no results posted and no label
\* added, so it never returns a result whose dag has a cycle. (When posting the
\* failure comment fails in the catch block, that failure is what is thrown.)
C6_CyclicGraphNeverPlanned ==
    (result # <<>> /\ dag # <<>> /\ dag[1].hasCycles)
    => /\ result[1].outcome = "threw"
       /\ executionPlan = <<>>
       /\ addedLabels = <<>>
       /\ \A i \in 1..Len(comments) : comments[i].kind # "completed"
       /\ \/ /\ result[1].error = CircularError
             /\ comments[Len(comments)] = [kind |-> "failed", message |-> CircularError]
          \/ /\ result[1].error = PortError
             /\ comments[Len(comments)].kind # "failed"

\* execute has refused a decomposition with a cycle.
C6_Witness ==
    /\ result # <<>> /\ dag # <<>> /\ dag[1].hasCycles
    /\ result[1] = [outcome |-> "threw", error |-> CircularError]
    /\ comments = <<[kind |-> "started"],
                    [kind |-> "failed", message |-> CircularError]>>
    /\ executionPlan = <<>> /\ addedLabels = <<>>
\* C7: initialize() on a record in state new, whatever its title, body, labels
\* and priority, when no subscriber throws, ends in state pending with one of
\* the four priorities, one history record added (new -> pending) and a label
\* list that holds state:pending and priority:<the assigned priority>.
C7_InitializeClassifies ==
    [][(Called("initialize") /\ issue.state = "new" /\ lastCall'.failAt = 0)
        => /\ lastCall'.outcome = "returned"
           /\ issue'.state = "pending"
           /\ issue'.priority \in {"critical", "high", "medium", "low"}
           /\ Len(transitionHistory') = Len(transitionHistory) + 1
           /\ SubSeq(transitionHistory', 1, Len(transitionHistory)) = transitionHistory
           /\ transitionHistory'[Len(transitionHistory')].from = "new"
           /\ transitionHistory'[Len(transitionHistory')].to = "pending"
           /\ "state:pending" \in Range(issue'.labels)
           /\ ("priority:" \o issue'.priority) \in Range(issue'.labels)]_vars

\* initialize() has classified a record that came with a priority, a priority
\* label and a text whose critical keyword spans the join of title and body.
C7_Witness ==
    /\ lastCall.op = "initialize" /\ lastCall.from = "new"
    /\ lastCall.outcome = "returned"
    /\ issue.title = "production" /\ issue.body = "down"
    /\ issue.state = "pending" /\ issue.priority = "critical"
    /\ issue.labels = <<"priority:low", "bug", "priority:critical", "state:pending">>

\* C8: initialize() in a state other than new (a second initialize() included)
\* returns without changing state, priority, labels or history and emits
\* nothing.
C8_InitializeOnlyFromNew ==
    [][(Called("initialize") /\ issue.state # "new")
        => /\ lastCall'.outcome = "returned"
           /\ issue' = issue
           /\ transitionHistory' = transitionHistory
           /\ emitted' = <<>>]_vars

\* A second initialize() has run after the first one.
C8_Witness ==
    /\ lastCall.op = "initialize" /\ lastCall.from = "pending"
    /\ lastCall.outcome = "returned" /\ emitted = <<>>
    /\ Len(transitionHistory) = 1
    /\ transitionHistory[1].reason = "Auto-transition from new issue"

\* C9: initialize() on a record in state new, when no subscriber throws, emits
\* state-changed (new -> pending), priority-assigned, labels-updated and
\* ready-for-processing, once each and in this order, and the record sent with
\* ready-for-processing has state pending, the assigned priority and the
\* merged labels.
C9_InitializeEventOrder ==
    (lastCall.op = "initialize" /\ lastCall.from = "new" /\ lastCall.failAt = 0)
    => /\ [i \in 1..Len(emitted) |-> emitted[i].event] =
             <<"state-changed", "priority-assigned", "labels-updated",
               "ready-for-processing">>
       /\ emitted[1].payload.from = "new"
       /\ emitted[1].payload.to = "pending"
       /\ emitted[4].payload.state = "pending"
       /\ emitted[4].payload.priority = emitted[2].payload.priority
       /\ emitted[4].payload.labels = emitted[3].payload.labels
       /\ emitted[4].payload.priority = issue.priority
       /\ emitted[4].payload.labels = issue.labels

\* initialize() has emitted its four events for a record that had labels.
C9_Witness ==
    /\ lastCall.op = "initialize" /\ lastCall.from = "new" /\ lastCall.failAt = 0
    /\ Len(emitted) = 4
    /\ emitted[4].event = "ready-for-processing"
    /\ emitted[4].payload.labels = <<"bug", "priority:medium", "testing", "state:pending">>

\* The precedence of the priority tiers as the claim states it.
ClaimedPriority(text) ==
    CASE anyKeyword(text, priorityKeywords.critical) -> "critical"
      [] anyKeyword(text, priorityKeywords.high) -> "high"
      [] anyKeyword(text, priorityKeywords.low) -> "low"
      [] OTHER -> "medium"

\* C10: the priority assigned is critical if the lowercased title and body
\* hold a critical keyword, otherwise high if they hold a high keyword,
\* otherwise low if they hold a low keyword, otherwise medium, whatever
\* priority the record had and whatever medium keywords the text holds.
C10_PriorityPrecedence ==
    (lastCall.op = "initialize" /\ lastCall.from = "new" /\ lastCall.failAt # 1)
    => issue.priority = ClaimedPriority(toLowerCase(issue.title \o " " \o issue.body))

\* A text with an upper-case critical keyword and low keywords was classified
\* critical; the record holds the label of the priority it came with.
C10_Witness ==
    /\ lastCall.op = "initialize" /\ lastCall.from = "new"
    /\ issue.title = "Minor documentation update"
    /\ issue.body = "URGENT: nice to have"
    /\ issue.priority = "critical"
    /\ "priority:low" \in Range(issue.labels)

\* The labels of a list in the order of their first occurrence.
FirstOccurrences(labels) ==
    LET keep == {i \in 1..Len(labels) : \A j \in 1..(i - 1) : labels[j] # labels[i]}
        rank(i) == Cardinality({j \in keep : j <= i})
    IN  [n \in 1..Cardinality(keep) |-> labels[CHOOSE i \in keep : rank(i) = n]]

NoRepeats(labels) ==
    \A i, j \in 1..Len(labels) : i # j => labels[i] # labels[j]

\* C11: initialize() on a record in state new whose labelling step runs leaves a
\* label list that holds no string twice: it starts with the initial labels
\* (first occurrence of each, in their original order) and goes on with the
\* derived labels that the list did not hold.
C11_LabelsMergedWithoutRepeats ==
    [][(Called("initialize") /\ issue.state = "new" /\ lastCall'.failAt \notin {1, 2})
        => LET kept == FirstOccurrences(issue.labels)
           IN  /\ NoRepeats(issue'.labels)
               /\ Len(issue'.labels) >= Len(kept)
               /\ SubSeq(issue'.labels, 1, Len(kept)) = kept
               /\ \A i \in (Len(kept) + 1)..Len(issue'.labels) :
                     issue'.labels[i] \notin Range(issue.labels)
               /\ Range(issue'.labels) =
                     Range(issue.labels) \cup Range(newLabels(issue'))]_vars

\* initialize() has labelled a record that came with a label twice and whose
\* text derives that same label again.
C11_Witness ==
    /\ lastCall.op = "initialize" /\ lastCall.from = "new" /\ lastCall.failAt = 0
    /\ issue.title = "Critical production bug" /\ issue.body = ""
    /\ issue.priority = "critical"
    /\ issue.labels = <<"priority:low", "bug", "priority:critical", "state:pending">>

\* C12: initialize() on the record that a first initialize() produced, handed
\* with its state set back to new to a new state machine, leaves the label list
\* of the first run as it is, with no string twice.
C12_LabellingIdempotent ==
    [][(Called("initialize") /\ lastCall.op = "constructor" /\ lastCall.from = "pending"
          /\ lastCall'.failAt = 0)
        => /\ lastCall'.outcome = "returned"
           /\ issue'.labels = issue.labels
           /\ NoRepeats(issue'.labels)]_vars

\* The second initialize() has run on a record whose first run derived the
\* labels bug, documentation and agent-system.
C12_Witness ==
    /\ lastCall.op = "initialize" /\ lastCall.from = "new" /\ lastCall.failAt = 0
    /\ lastCall.labelsBefore = issue.labels
    /\ issue.title = "Minor documentation update"
    /\ issue.body = "Important feature for the agent"
    /\ {"priority:high", "enhancement", "documentation", "agent-system", "state:pending"}
          \subseteq Range(issue.labels)

\* C13: a write into a value the state machine handed out (the record of
\* getIssue() or its label list, the list of getHistory() or one of its
\* records, the payload of state-changed, labels-updated or
\* ready-for-processing) leaves the record and the history that getIssue() and
\* getHistory() return afterwards as they were.
C13_HandedOutValuesAreCopies ==
    [][Called("mutate")
        => /\ getIssue([machine EXCEPT !.issue = issue']) = getIssue(machine)
           /\ getHistory([machine EXCEPT !.transitionHistory = transitionHistory'])
                 = getHistory(machine)]_vars

\* C14: every initialize() and transition() call, returning or throwing, leaves
\* the history it found as a prefix of the history it leaves, record for
\* record; a call that changes the state appends exactly one record, from the
\* state it found to the state it left, and every other call appends none, so
\* the history holds one record per state change in the order they happened.
C14_HistoryAppendOnly ==
    [][(Called("initialize") \/ Called("transition"))
        => /\ Len(transitionHistory') >= Len(transitionHistory)
           /\ SubSeq(transitionHistory', 1, Len(transitionHistory)) = transitionHistory
           /\ IF issue'.state # issue.state
              THEN /\ Len(transitionHistory') = Len(transitionHistory) + 1
                   /\ transitionHistory'[Len(transitionHistory')].from = issue.state
                   /\ transitionHistory'[Len(transitionHistory')].to = issue'.state
              ELSE transitionHistory' = transitionHistory]_vars

\* A transition whose subscriber threw has appended the second record after
\* the record of initialize(), and the state is the one that record names.
C14_Witness ==
    /\ lastCall.op = "transition" /\ lastCall.outcome = "threw"
    /\ lastCall.from = "pending" /\ lastCall.arg = "in_progress"
    /\ Len(transitionHistory) = 2
    /\ transitionHistory[1].reason = "Auto-transition from new issue"
    /\ transitionHistory[2].from = "pending" /\ transitionHistory[2].to = "in_progress"
    /\ issue.state = "in_progress"

\* The events of initialize() in the order of its steps.
InitializeEvents ==
    <<"state-changed", "priority-assigned", "labels-updated", "ready-for-processing">>

\* C15: when a subscriber of the k-th event of initialize() throws, the events
\* emitted are the first k events followed by one error event that carries the
\* thrown error, the call raises that same error, the steps up to the k-th
\* have taken effect (state pending and its history record, then the priority,
\* then the labels) and the later steps have not (priority or labels as found).
C15_InitializeFailureKeepsCompletedSteps ==
    [][(Called("initialize") /\ issue.state = "new" /\ lastCall'.failAt > 0)
        => LET k == lastCall'.failAt
           IN  /\ lastCall'.outcome = "threw"
               /\ lastCall'.error = SubscriberError
               /\ [i \in 1..Len(emitted') |-> emitted'[i].event]
                     = SubSeq(InitializeEvents, 1, k) \o <<"error">>
               /\ emitted'[k + 1].payload.error = lastCall'.error
               /\ issue'.state = "pending"
               /\ transitionHistory' = Append(transitionHistory,
                      [from |-> "new", to |-> "pending",
                       reason |-> "Auto-transition from new issue"])
               /\ IF k >= 2
                  THEN issue'.priority = ClaimedPriority(issueText(issue))
                  ELSE issue'.priority = issue.priority
               /\ IF k >= 3
                  THEN {"state:pending", "priority:" \o issue'.priority}
                          \subseteq Range(issue'.labels)
                  ELSE issue'.labels = issue.labels]_vars

\* A subscriber of priority-assigned threw: the record is pending with the
\* new priority, without the derived labels, and the error event came last.
C15_Witness ==
    /\ lastCall.op = "initialize" /\ lastCall.from = "new" /\ lastCall.failAt = 2
    /\ lastCall.outcome = "threw"
    /\ issue.state = "pending" /\ issue.priority = "low"
    /\ issue.title = "We should follow up"
    /\ issue.labels = <<"bug">>
    /\ Len(emitted) = 3 /\ emitted[3].event = "error"
    /\ Len(transitionHistory) = 1

\* The state:* labels of a label list.
StateLabels(labels) == {l \in Range(labels) : startsWith(l, "state:")}

\* C16: in a transition(t) that returns, a subscriber that reads getIssue()
\* while it handles state-changed sees state t and, of the state:* labels,
\* state:t and no other.
C16_StateChangedSeesNewLabel ==
    (lastCall.op = "transition" /\ lastCall.outcome = "returned")
    => /\ Len(emitted) = 1
       /\ emitted[1].event = "state-changed"
       /\ emitted[1].seen.state = lastCall.arg
       /\ StateLabels(emitted[1].seen.labels) = {"state:" \o lastCall.arg}

\* C17: an initialize() or a transition() that raises an error to its caller,
\* a rejected transition included, has emitted the error event, as the last
\* thing it emitted, with the error it raises.
C17_FailureSignalledBeforeRaised ==
    (lastCall.op \in {"initialize", "transition"} /\ lastCall.outcome = "threw")
    => /\ emitted # <<>>
       /\ emitted[Len(emitted)].event = "error"
       /\ emitted[Len(emitted)].payload.error = lastCall.error

\* The agents that a call has started, in the order of its agent-start events.
Started(log, c) ==
    LET at == {k \in DOMAIN log : log[k].call = c /\ log[k].event = "agent-start"}
        rank(k) == Cardinality({j \in at : j <= k})
    IN  [n \in 1..Cardinality(at) |-> log[CHOOSE k \in at : rank(k) = n].payload.agent]

\* The events of a call, in the order the pipeline emitted them.
EventsOf(log, c) ==
    LET at == {k \in DOMAIN log : log[k].call = c}
        rank(k) == Cardinality({j \in at : j <= k})
    IN  [n \in 1..Cardinality(at) |-> log[CHOOSE k \in at : rank(k) = n]]

\* C18: at every step of a processIssue call that does not overlap another call
\* on the pipeline, the agents started so far are the first registered agents
\* in registration order; the first agent receives the record
\* that getIssue() returns after this call's initialize(), each further agent
\* receives the record the agent before it returned, and a call that returns
\* has run every registered agent once and returns the record of the last
\* agent, or the initialized record when no agent is registered.
C18_AgentsChained ==
    [][\A c \in {d \in DOMAIN calls' : d \notin DOMAIN calls \/ calls'[d] # calls[d]} :
          LET after == [agents |-> agents', calls |-> calls', emitted |-> pipelineEmitted']
              call == calls'[c]
              n == Len(call.received)
          IN  /\ Started(pipelineEmitted', c) = SubSeq(iterated(after, c), 1, n)
              /\ n >= 1 => call.received[1] = call.initialized.issue
              /\ \A k \in 2..n : call.received[k] = call.produced[k - 1]
              /\ \A k \in 1..Len(call.produced) :
                    call.produced[k] =
                       process(iterated(after, c)[k], call.received[k]).value
              /\ (c \in DOMAIN calls /\ calls[c].pc # "returned" /\ call.pc = "returned")
                 => /\ n = Len(agents) /\ Len(call.produced) = n
                    /\ call.value = <<IF n = 0 THEN call.initialized.issue
                                      ELSE call.produced[n]>>]_vars

\* A call has returned the record of the second of two agents, which holds
\* the labels of initialize(), then the first agent's, then the second's.
C18_Witness ==
    \E c \in DOMAIN calls :
        /\ calls[c].pc = "returned"
        /\ Len(calls[c].received) = 2
        /\ calls[c].input.id = "test-456"
        /\ calls[c].value[1].labels =
              <<"priority:medium", "testing", "agent-system", "state:pending",
                "agent1-processed", "agent2-processed">>

\* The events of a processIssue call on a new record in which nothing fails:
\* the four forwarded events, agent-start and agent-complete for each agent
\* in turn, pipeline-complete.
CompleteRun(registered) ==
    [n \in 1..(2 * Len(registered) + 5) |->
        CASE n = 1 -> [event |-> "issue-state-changed", agent |-> NoValue]
          [] n = 2 -> [event |-> "issue-priority-assigned", agent |-> NoValue]
          [] n = 3 -> [event |-> "issue-labels-updated", agent |-> NoValue]
          [] n = 4 -> [event |-> "issue-ready", agent |-> NoValue]
          [] n = 2 * Len(registered) + 5 -> [event |-> "pipeline-complete", agent |-> NoValue]
          [] OTHER -> [event |-> IF n % 2 = 1 THEN "agent-start" ELSE "agent-complete",
                       agent |-> registered[(n - 3) \div 2]]]

\* The events of a call by name and, for the events of an agent, by agent.
Observed(log, c) ==
    LET events == EventsOf(log, c)
    IN  [n \in 1..Len(events) |->
            [event |-> events[n].event,
             agent |-> IF events[n].event \in {"agent-start", "agent-complete"}
                       THEN events[n].payload.agent ELSE NoValue]]

\* C19: when a processIssue call on a new record, not overlapping another call,
\* returns, what the pipeline has emitted for it is, in this order:
\* issue-state-changed, issue-priority-assigned, issue-labels-updated,
\* issue-ready, then agent-start and agent-complete for each registered agent
\* in registration order, then pipeline-complete, and nothing else.
C19_PipelineEventOrder ==
    [][\A c \in DOMAIN calls :
          (calls[c].pc # "returned" /\ calls'[c].pc = "returned"
             /\ calls[c].input.state = "new")
          => /\ Observed(pipelineEmitted', c) = CompleteRun(agents)
             /\ pipelineEmitted'[Len(pipelineEmitted')].payload = calls'[c].value[1]]_vars

\* A call on a new record has run two agents and emitted its nine events.
C19_Witness ==
    \E c \in DOMAIN calls :
        /\ calls[c].pc = "returned" /\ calls[c].input.state = "new"
        /\ agents = <<"Agent2", "Agent1">>
        /\ Len(EventsOf(pipelineEmitted, c)) = 9
        /\ EventsOf(pipelineEmitted, c)[4].event = "issue-ready"
        /\ EventsOf(pipelineEmitted, c)[5].payload = [agent |-> "Agent2", issue |-> "test-789"]
        /\ EventsOf(pipelineEmitted, c)[9].event = "pipeline-complete"

\* The events of a call up to the failure of the agent it started as k-th.
FailedRun(registered, k, forwarded) ==
    [n \in 1..(2 * k + forwarded) |->
        IF n <= forwarded THEN CompleteRun(registered)[n]
        ELSE IF n = 2 * k + forwarded THEN [event |-> "pipeline-error", agent |-> NoValue]
        ELSE CompleteRun(registered)[n + 4 - forwarded]]

\* C20: when the k-th agent of a processIssue call that does not overlap
\* another call fails (ErrorAgent is the agent that fails), the call has emitted
\* agent-start and agent-complete for the k - 1 agents before it, agent-start
\* for the k-th agent, then pipeline-error once with the agent's error, and
\* nothing after it: no agent-complete for the k-th agent, no agent-start for
\* a later agent or for the k-th again, no pipeline-complete; the call raises
\* the agent's error and returns no record.
C20_AgentFailureAborts ==
    [][\A c \in DOMAIN calls :
          /\ (calls[c].pc = "agent" /\ agents[calls[c].index] = "ErrorAgent"
                /\ <<calls'[c], pipelineEmitted'>> # <<calls[c], pipelineEmitted>>)
             => LET k == calls[c].index
                    forwarded == IF calls[c].input.state = "new" THEN 4 ELSE 0
                IN  /\ calls'[c].pc = "threw"
                    /\ Observed(pipelineEmitted', c) = FailedRun(agents, k, forwarded)
                    /\ pipelineEmitted'[Len(pipelineEmitted')].payload.error = AgentError
                    /\ calls'[c].error = AgentError
                    /\ calls'[c].value = <<>>
          /\ calls[c].pc = "threw"
             => /\ calls'[c] = calls[c]
                /\ EventsOf(pipelineEmitted', c) = EventsOf(pipelineEmitted, c)]_vars

\* The second of two agents has failed: the first agent completed, the call
\* raised the error of the second.
C20_Witness ==
    \E c \in DOMAIN calls :
        /\ calls[c].pc = "threw" /\ calls[c].error = AgentError
        /\ agents = <<"Agent1", "ErrorAgent">>
        /\ calls[c].index = 2
        /\ Len(calls[c].produced) = 1
        /\ Len(calls) = c + 1

\* The payload of an event carries the record: it is the record, or it holds
\* the label list of the record.
Carries(payload, record) ==
    \/ payload = record
    \/ /\ "labels" \in DOMAIN payload
       /\ payload.labels = record.labels

\* C21: when the second of two agents fails in a processIssue call whose
\* first agent appended a label, an event that the pipeline has emitted for
\* the call carries the record that the first agent returned, with that
\* label, and the call raises the error of the second agent.
C21_IntermediateRecordObservable ==
    \A c \in DOMAIN calls :
        (calls[c].pc = "threw" /\ calls[c].index = 2 /\ Len(calls[c].produced) = 1)
        => /\ calls[c].error = AgentError
           /\ \E k \in DOMAIN pipelineEmitted :
                 /\ pipelineEmitted[k].call = c
                 /\ Carries(pipelineEmitted[k].payload, calls[c].produced[1])

\* The pipeline name of each state-machine event.
PipelineName(event) ==
    CASE event = "state-changed" -> "issue-state-changed"
      [] event = "priority-assigned" -> "issue-priority-assigned"
      [] event = "labels-updated" -> "issue-labels-updated"
      [] event = "ready-for-processing" -> "issue-ready"
      [] event = "error" -> "fsm-error"

\* The call with this number has just been made or has just taken a step.
Stepped(c) == c \notin DOMAIN calls \/ calls'[c] # calls[c]

\* C22: when a subscriber of the k-th forwarded issue-* event throws inside a
\* processIssue call, the call has emitted the first k issue-* events and then
\* fsm-error; when it goes on it emits pipeline-error with that error, raises
\* that error and returns no record; at no time is there an agent-start of
\* that call.
C22_InitializeFailureAborts ==
    [][\A c \in DOMAIN calls' :
          calls'[c].initialized.outcome = "threw"
          => /\ Started(pipelineEmitted', c) = <<>>
             /\ calls'[c].pc \in {"initialize", "threw"}
             /\ c \notin DOMAIN calls
                => LET k == lastCall'.failAt
                   IN  /\ k \in 1..4
                       /\ [n \in 1..(k + 1) |-> EventsOf(pipelineEmitted', c)[n].event]
                             = [n \in 1..(k + 1) |->
                                  IF n <= k THEN PipelineName(InitializeEvents[n])
                                  ELSE "fsm-error"]
                       /\ Len(EventsOf(pipelineEmitted', c)) = k + 1
                       /\ EventsOf(pipelineEmitted', c)[k + 1].payload.error
                             = calls'[c].initialized.error
             /\ (c \in DOMAIN calls /\ calls[c].pc = "initialize" /\ Stepped(c))
                => /\ calls'[c].pc = "threw"
                   /\ calls'[c].error = calls[c].initialized.error
                   /\ calls'[c].value = <<>>
                   /\ pipelineEmitted' = Append(pipelineEmitted,
                         [event |-> "pipeline-error", call |-> c,
                          payload |-> [error |-> calls[c].initialized.error]])]_vars

\* A subscriber of issue-labels-updated threw in a call on a pipeline with an
\* agent: the call has raised and its last two events are fsm-error and
\* pipeline-error.
C22_Witness ==
    \E c \in DOMAIN calls :
        /\ calls[c].pc = "threw" /\ calls[c].error = SubscriberError
        /\ agents # <<>>
        /\ Len(EventsOf(pipelineEmitted, c)) = 5
        /\ EventsOf(pipelineEmitted, c)[3].event = "issue-labels-updated"
        /\ EventsOf(pipelineEmitted, c)[4].event = "fsm-error"
        /\ EventsOf(pipelineEmitted, c)[5].event = "pipeline-error"

\* C23: the events that the pipeline emits when a processIssue call is made
\* are the events of that call's state machine, one pipeline event for each,
\* in order, under the pipeline name and with the payload of the event,
\* whatever calls were made on the pipeline before; for a new record whose
\* initialize() completes they are issue-state-changed,
\* issue-priority-assigned, issue-labels-updated and issue-ready, once each.
C23_ForwardedOnce ==
    [][Len(calls') = Len(calls) + 1
        => LET c == Len(calls')
               added == SubSeq(pipelineEmitted', Len(pipelineEmitted) + 1,
                               Len(pipelineEmitted'))
           IN  /\ SubSeq(pipelineEmitted', 1, Len(pipelineEmitted)) = pipelineEmitted
               /\ added = [n \in 1..Len(emitted') |->
                             [event |-> PipelineName(emitted'[n].event),
                              payload |-> emitted'[n].payload, call |-> c]]
               /\ (calls'[c].input.state = "new" /\ lastCall'.failAt = 0)
                  => [n \in 1..Len(added) |-> added[n].event]
                        = <<"issue-state-changed", "issue-priority-assigned",
                            "issue-labels-updated", "issue-ready">>]_vars

\* Two calls on new records have been made one after the other on a pipeline:
\* it has emitted issue-ready twice, once for each.
C23_Witness ==
    /\ Len(calls) = 2
    /\ calls[1].input.state = "new" /\ calls[2].input.state = "new"
    /\ calls[1].pc = "returned"
    /\ calls[1].initialized.outcome = "returned"
    /\ calls[2].initialized.outcome = "returned"
    /\ {pipelineEmitted[k].call : k \in {j \in DOMAIN pipelineEmitted :
                                            pipelineEmitted[j].event = "issue-ready"}} = {1, 2}
    /\ emittedTimes("issue-ready") = 2

\* The names in the agent-registered events that follow the last
\* agents-cleared event of a log, in order.
RegisteredSinceClear(log) ==
    LET cleared == {k \in DOMAIN log : log[k].event = "agents-cleared"}
        at == {k \in DOMAIN log : /\ log[k].event = "agent-registered"
                                  /\ \A j \in cleared : j < k}
        rank(k) == Cardinality({j \in at : j <= k})
    IN  [n \in 1..Cardinality(at) |-> log[CHOOSE k \in at : rank(k) = n].payload.name]

\* C24: at all times getAgents() returns the agents registered since the last
\* clearAgents, in registration order; the agent list changes only in a
\* registerAgent, which appends the agent and emits agent-registered with its
\* name, and in a clearAgents, which empties the list and emits
\* agents-cleared; a push on a list that getAgents() returned changes nothing.
C24_AgentListTracksRegistrations ==
    [][/\ getAgents([pipeline EXCEPT !.agents = agents']).list
             = RegisteredSinceClear(pipelineEmitted')
       /\ agents' # agents
          => /\ Len(pipelineEmitted') = Len(pipelineEmitted) + 1
             /\ LET e == pipelineEmitted'[Len(pipelineEmitted')]
                IN  \/ /\ e.event = "agent-registered"
                       /\ agents' = Append(agents, e.payload.name)
                    \/ /\ e.event = "agents-cleared"
                       /\ agents' = <<>>
       /\ emittedTimes("agent-registered")' = emittedTimes("agent-registered") + 1
          => Len(agents') = Len(agents) + 1
       /\ emittedTimes("agents-cleared")' = emittedTimes("agents-cleared") + 1
          => agents' = <<>>]_vars

\* An agent was registered, the list was cleared, another agent was
\* registered: the list holds the second agent only.
C24_Witness ==
    /\ agents = <<"Agent2">>
    /\ Len(pipelineEmitted) = 3
    /\ pipelineEmitted[1] = [event |-> "agent-registered", call |-> 0,
                             payload |-> [name |-> "Agent1"]]
    /\ pipelineEmitted[2].event = "agents-cleared"
    /\ pipelineEmitted[3].event = "agent-registered"

\* C25: canTransitionTo(t) returns, and returns true exactly when the pair of
\* the current state and t is in the transition table, which is exactly when
\* transition(t) in the same state returns; it emits nothing and leaves the
\* record and the history as they are.
C25_CanTransitionToIsPure ==
    [][Called("canTransitionTo")
        => /\ lastCall'.outcome = "returned"
           /\ lastCall'.returns = <<(<<issue.state, lastCall'.arg>> \in TransitionTable)>>
           /\ lastCall'.returns =
                 <<(transition(machine, lastCall'.arg, NoValue, FALSE).outcome = "returned")>>
           /\ emitted' = <<>>
           /\ issue' = issue
           /\ transitionHistory' = transitionHistory]_vars

\* canTransitionTo('pending') has returned true on a closed record that was
\* closed by a transition.
C25_Witness ==
    /\ lastCall.op = "canTransitionTo" /\ lastCall.arg = "pending"
    /\ lastCall.returns = <<TRUE>>
    /\ issue.state = "closed"
    /\ transitionHistory # <<>>

\* The task list with every dependency identifier that matches no listed task
\* removed.
WithoutDangling(ts) ==
    LET listed(id) == id \in Listed(ts)
    IN  [i \in 1..Len(ts) |->
            [ts[i] EXCEPT !.dependencies = SelectSeq(@, listed)]]

\* C26: a dependency identifier that matches no listed task is skipped by
\* buildDAG: the cycle flag is the one the list without its dangling
\* identifiers gets, every identifier in the returned levels is the identifier
\* of a listed task, and no line of the rendered plan names any other
\* identifier.
C26_DanglingIdentifiersSkipped ==
    dag # <<>>
    => /\ dag[1].hasCycles = buildDAG(WithoutDangling(dag[1].tasks)).hasCycles
       /\ \A i \in 1..Len(dag[1].levels) :
             Range(dag[1].levels[i]) \subseteq Listed(dag[1].tasks)
       /\ executionPlan # <<>>
             => \A i \in 1..Len(executionPlan[1]) :
                   \A id \in TaskIds \ Listed(dag[1].tasks) :
                      ~includes(executionPlan[1][i], id)

\* The identifiers of a level, each after the first preceded by a comma and a
\* space.
RECURSIVE CommaSeparated(_)
CommaSeparated(level) ==
    IF level = <<>> THEN ""
    ELSE IF Len(level) = 1 THEN level[1]
    ELSE CommaSeparated(SubSeq(level, 1, Len(level) - 1)) \o ", " \o level[Len(level)]

\* C27: the plan createExecutionPlan renders for a DAG that buildDAG returned
\* has one line per level, in level order; the i-th line, counting from 1, is
\* "Level i: " followed by the level's identifiers joined by comma, followed by
\* " (parallel)" exactly when the level holds more than one task. (No level
\* that buildDAG returns is empty.)
C27_PlanRendersLevels ==
    (dag # <<>> /\ executionPlan # <<>>)
    => /\ Len(executionPlan[1]) = Len(dag[1].levels)
       /\ \A i \in 1..Len(dag[1].levels) :
             LET level == dag[1].levels[i]
                 named == "Level " \o ToString(i) \o ": " \o CommaSeparated(level)
             IN  /\ level # <<>>
                 /\ executionPlan[1][i] =
                       IF Len(level) > 1 THEN named \o " (parallel)" ELSE named
                 /\ includes(executionPlan[1][i], "(parallel)") <=> Len(level) > 1

\* createExecutionPlan has rendered a level of two tasks followed by a level
\* of one task.
C27_Witness ==
    /\ dag # <<>> /\ dag[1].levels = <<<<"t2", "t3">>, <<"t1">>>>
    /\ executionPlan = <<<<"Level 1: t2, t3 (parallel)", "Level 2: t1">>>>

\* C28: buildDAG returns for every task list, with cycles, self-dependencies,
\* repeated dependency identifiers and dangling identifiers included: the call
\* is always able to complete, its result holds the list it was given, a
\* boolean cycle flag and levels of identifiers, and its traversal looks up
\* the dependencies of no identifier more than once.
C28_BuildDAGAlwaysReturns ==
    /\ (response = "json" /\ result = <<>> /\ dag = <<>>) => ENABLED BuildDAG
    /\ dag # <<>>
          => /\ dag[1].hasCycles \in BOOLEAN
             /\ \A i \in 1..Len(dag[1].levels) :
                   Range(dag[1].levels[i]) \subseteq
                      Listed(dag[1].tasks) \cup TaskIds
             /\ LET expanded == traversal(dag[1].tasks).expanded
                IN  \A i, j \in 1..Len(expanded) :
                       expanded[i] = expanded[j] => i = j

\* buildDAG has returned for a task that depends on itself and twice on an
\* identifier that no task has.
C28_Witness ==
    /\ dag # <<>> /\ result = <<>>
    /\ dag[1].tasks = <<[id |-> "t1", dependencies |-> <<"t1", "t2", "t2">>]>>
    /\ dag[1].hasCycles
    /\ dag[1].levels = <<<<"t2">>, <<"t1">>>>
    /\ traversal(dag[1].tasks).expanded = <<"t1", "t2">>

\* C29: when the response holds no fenced block, or a fenced block whose
\* content is not valid JSON, decomposeTasks returns the fallback of three
\* tasks: execute, unless a call on a port fails, builds the DAG of the
\* fallback and returns.
C29_UnparsableResponseFallsBack ==
    (result # <<>> /\ response \in {"no-json-block", "invalid-json"})
    => \/ /\ result[1].outcome = "threw"
          /\ result[1].error = PortError
       \/ /\ result[1].outcome = "returned"
          /\ dag # <<>>
          /\ dag[1].tasks = fallbackTasks
          /\ Listed(dag[1].tasks) = {"task-1", "task-2", "task-3"}
          /\ DependsOn(dag[1].tasks) = {<<"task-2", "task-1">>, <<"task-3", "task-2">>}

\* C30: whether or not processIssue calls on a pipeline overlap, every record
\* that a call hands to an agent, every record that an agent of the call
\* returns, and the record that the call returns have the identifier of the
\* call's own input.
C30_OverlappingCallsKeepTheirRecord ==
    \A c \in DOMAIN calls :
       /\ \A k \in DOMAIN calls[c].received :
             calls[c].received[k].id = calls[c].input.id
       /\ \A k \in DOMAIN calls[c].produced :
             calls[c].produced[k].id = calls[c].input.id
       /\ calls[c].value # <<>> => calls[c].value[1].id = calls[c].input.id

\* C31: for a task list that is acyclic, in any input order, no task is in an
\* earlier level than a listed task it depends on: the level of the
\* dependency is at most the level of the task.
C31_DependenciesNeverLater ==
    (dag # <<>> /\ ~HasCycle(dag[1].tasks))
    => \A p \in DependsOn(dag[1].tasks) :
          \A i \in LevelsOf(dag[1], p[1]) :
             \A j \in LevelsOf(dag[1], p[2]) : j <= i

\* The places (level, position) of d at which the identifier stands.
PlacesOf(d, id) ==
    {p \in UNION {{<<i, k>> : k \in 1..Len(d.levels[i])} : i \in 1..Len(d.levels)} :
        d.levels[p[1]][p[2]] = id}

\* C32: for every task list (its identifiers are unique), cyclic or not, the
\* levels buildDAG returns hold every task identifier at exactly one place and
\* no level is empty; the plan rendered from them has one non-empty line per
\* level; an empty task list yields no level and an empty plan.
C32_EveryTaskPlacedOnce ==
    dag # <<>>
    => /\ \A id \in Listed(dag[1].tasks) : Cardinality(PlacesOf(dag[1], id)) = 1
       /\ \A i \in 1..Len(dag[1].levels) : dag[1].levels[i] # <<>>
       /\ dag[1].tasks = <<>> => dag[1].levels = <<>>
       /\ executionPlan # <<>>
             => /\ Len(executionPlan[1]) = Len(dag[1].levels)
                /\ \A i \in 1..Len(executionPlan[1]) : executionPlan[1][i] # ""
                /\ dag[1].tasks = <<>> => executionPlan[1] = <<>>

\* buildDAG has placed the three tasks of a list with a cycle, and the plan of
\* its levels has been rendered.
C32_Witness ==
    /\ dag # <<>> /\ executionPlan # <<>>
    /\ dag[1].tasks = <<[id |-> "t1", dependencies |-> <<"t2">>],
                        [id |-> "t2", dependencies |-> <<"t1">>],
                        [id |-> "t3", dependencies |-> <<>>]>>
    /\ dag[1].hasCycles
    /\ dag[1].levels = <<<<"t2">>, <<"t1", "t3">>>>
    /\ Len(executionPlan[1]) = 2

\* buildDAG and createExecutionPlan have returned for the empty task list.
C32_WitnessEmpty ==
    /\ dag # <<>> /\ executionPlan = <<<<>>>>
    /\ dag[1].tasks = <<>> /\ dag[1].levels = <<>>

\* The positions of a label list that hold a state:* label.
StatePositions(labels) == {i \in 1..Len(labels) : startsWith(labels[i], "state:")}

\* C33: after an initialize() that returns on a record in state new, and after
\* a transition() that returns, whatever labels the record was constructed
\* with, the label list holds exactly one state:* label, and it is
\* state:<current state>.
C33_OneStateLabel ==
    (/\ lastCall.outcome = "returned"
     /\ \/ lastCall.op = "initialize" /\ lastCall.from = "new"
        \/ lastCall.op = "transition")
    => /\ Cardinality(StatePositions(issue.labels)) = 1
       /\ StateLabels(issue.labels) = {"state:" \o issue.state}

\* The history is a path of the transition table that ends at the current
\* state.
HistoryIsPath ==
    /\ \A i \in 1..Len(transitionHistory) :
          <<transitionHistory[i].from, transitionHistory[i].to>> \in TransitionTable
    /\ \A i \in 2..Len(transitionHistory) :
          transitionHistory[i].from = transitionHistory[i - 1].to
    /\ transitionHistory # <<>>
          => transitionHistory[Len(transitionHistory)].to = issue.state

\* C34: in every state that initialize(), transition() and canTransitionTo()
\* calls reach, subscribers that throw included, the history is a path of the
\* transition table: every record is an edge, each record starts where the
\* record before it ended, the last record ends at the current state, and the
\* first record starts at the state the machine was constructed with (while
\* the history is empty the state is the constructed one, the first record
\* starts at it, and the first record stays).
C34_HistoryIsPathFromConstructedState ==
    /\ []HistoryIsPath
    /\ [][/\ (transitionHistory = <<>> /\ transitionHistory' = <<>>)
               => issue'.state = issue.state
          /\ (transitionHistory = <<>> /\ transitionHistory' # <<>>)
               => transitionHistory'[1].from = issue.state
          /\ transitionHistory # <<>>
               => /\ transitionHistory' # <<>>
                  /\ transitionHistory'[1] = transitionHistory[1]]_vars

\* A machine constructed in state new has been initialized and then moved on:
\* its history is the path new -> pending -> in_progress.
C34_Witness ==
    /\ Len(transitionHistory) = 2
    /\ transitionHistory[1].from = "new" /\ transitionHistory[1].to = "pending"
    /\ transitionHistory[2].from = "pending" /\ transitionHistory[2].to = "in_progress"
    /\ issue.state = "in_progress"
    /\ lastCall.op = "transition" /\ lastCall.outcome = "returned"

\* The records of the history that leave the state new.
LeftNew == {i \in 1..Len(transitionHistory) : transitionHistory[i].from = "new"}

\* C35: no initialize() or transition() call takes a state machine whose state
\* is not new to the state new, and every initialize() that classifies (it
\* emits an event) starts in the state new and leaves it, so the machine
\* leaves new at most once and classification runs at most once.
C35_NewNeverReentered ==
    /\ [](Cardinality(LeftNew) <= 1)
    /\ [][/\ issue.state # "new" => issue'.state # "new"
          /\ (Called("initialize") /\ emitted' # <<>>)
                => /\ issue.state = "new"
                   /\ issue'.state # "new"
                   /\ transitionHistory = <<>>
          /\ (Called("initialize") /\ issue.state # "new")
                => /\ emitted' = <<>>
                   /\ issue' = issue
                   /\ transitionHistory' = transitionHistory]_vars

\* A machine that was classified has been initialized again: nothing
\* happened.
C35_Witness ==
    /\ lastCall.op = "initialize" /\ lastCall.from = "pending"
    /\ lastCall.outcome = "returned"
    /\ emitted = <<>>
    /\ Len(transitionHistory) = 1
    /\ transitionHistory[1].from = "new" /\ transitionHistory[1].to = "pending"
    /\ issue.state = "pending"

\* A state machine constructed on a record in state s.
MachineIn(s) ==
    constructor([id |-> "test-123", title |-> "Test Issue", body |-> "", state |-> s,
                 priority |-> NoValue, labels |-> <<>>, assignee |-> "octocat"])

\* (s, t): transition(t) returns on a machine in state s.
Accepted ==
    {p \in IssueState \X IssueState :
        transition(MachineIn(p[1]), p[2], NoValue, FALSE).outcome = "returned"}

\* The states that n further accepted transitions reach from the states of S.
RECURSIVE Onward(_, _)
Onward(S, n) ==
    IF n = 0 THEN S
    ELSE Onward(S \cup {t \in IssueState : \E u \in S : <<u, t>> \in Accepted}, n - 1)

\* The states that one or more accepted transitions reach from s.
ReachableFrom(s) ==
    Onward({t \in IssueState : <<s, t>> \in Accepted}, Cardinality(IssueState))

\* The accepted transitions leave every state, leave closed to pending only,
\* are the ones canTransitionTo() announces, and connect every state to every
\* state other than new.
TableHasNoDeadEnd ==
    /\ \A s \in IssueState : \E t \in IssueState : <<s, t>> \in Accepted
    /\ \A p \in IssueState \X IssueState :
          canTransitionTo(MachineIn(p[1]), p[2]) <=> p \in Accepted
    /\ {t \in IssueState : <<"closed", t>> \in Accepted} = {"pending"}
    /\ \A s \in IssueState : ReachableFrom(s) = IssueState \ {"new"}

\* C36: no state is a dead end. In each of the six states transition() accepts
\* at least one target and canTransitionTo() agrees with it; from closed the
\* only target accepted is pending; from every state, every state other than
\* new is reached by one or more accepted transitions, and new by none. The
\* machine at hand, whatever its record and history, accepts some transition,
\* and only the one to pending when it is closed.
C36_NoDeadEnd ==
    /\ TableHasNoDeadEnd
    /\ \E t \in IssueState : transition(machine, t, NoValue, FALSE).outcome = "returned"
    /\ issue.state = "closed"
          => \A t \in IssueState :
                transition(machine, t, NoValue, FALSE).outcome = "returned"
                   <=> t = "pending"

\* A machine that was done and then closed has been reopened to pending.
C36_Witness ==
    /\ lastCall.op = "transition" /\ lastCall.outcome = "returned"
    /\ lastCall.from = "closed" /\ lastCall.arg = "pending"
    /\ issue.state = "pending"
    /\ Len(transitionHistory) = 2
    /\ transitionHistory[1].from = "done" /\ transitionHistory[1].to = "closed"

\* The labels without the prefix state:, in their order.
OtherLabels(labels) ==
    LET other(l) == ~startsWith(l, "state:")
    IN  SelectSeq(labels, other)

\* C37: a transition() that returns leaves the identifier, title, body,
\* priority and assignee of the record as they were, and the labels without
\* the prefix state: (priority:* labels included) the same and in the same
\* order.
C37_TransitionFrame ==
    [][(Called("transition") /\ lastCall'.outcome = "returned")
        => /\ \A f \in {"id", "title", "body", "priority", "assignee"} :
                 issue'[f] = issue[f]
           /\ DOMAIN issue' = DOMAIN issue
           /\ OtherLabels(issue'.labels) = OtherLabels(issue.labels)]_vars

\* A classified record with stale state labels, a type label and a priority
\* label has moved from pending to in_progress.
C37_Witness ==
    /\ lastCall.op = "transition" /\ lastCall.outcome = "returned"
    /\ lastCall.from = "pending" /\ lastCall.arg = "in_progress"
    /\ Len(transitionHistory) = 2
    /\ Len(OtherLabels(issue.labels)) >= 2
    /\ OtherLabels(issue.labels)[1] = "docs"
    /\ \E i \in 1..Len(issue.labels) : startsWith(issue.labels[i], "priority:")
    /\ StateLabels(issue.labels) = {"state:in_progress"}
    /\ StateLabels(lastCall.labelsBefore) = {"state:new", "state:done", "state:pending"}

\* The processIssue calls that are suspended in await.
InFlight == {c \in DOMAIN calls : calls[c].pc \in {"initialize", "agent"}}

\* C38: a registerAgent or clearAgents call made while a processIssue call is
\* suspended, in initialize() or in an agent, leaves the list of agents that
\* the suspended call iterates as it was: the call goes on to run the agents
\* it would have run without it.
C38_AgentsFixedAtCallStart ==
    [][\A c \in InFlight :
          LET after == [agents |-> agents', calls |-> calls',
                        emitted |-> pipelineEmitted']
          IN  (/\ Len(pipelineEmitted') = Len(pipelineEmitted) + 1
               /\ pipelineEmitted'[Len(pipelineEmitted')].event
                     \in {"agent-registered", "agents-cleared"})
              => iterated(after, c) = iterated(pipeline, c)]_vars

\* C39: after any sequence of initialize() and transition() calls, returning
\* or throwing, the record object that the constructor was given holds what
\* it held when it was given: the same state, the same priority, the same
\* labels in the same order, and the same other fields.
C39_CallerRecordUntouched ==
    /\ caller.record.state = caller.given.state
    /\ caller.record.priority = caller.given.priority
    /\ caller.record.labels = caller.given.labels
    /\ caller.record = caller.given

\* A record given in state new with three labels and no priority has been
\* classified and moved to in_progress: the machine's record has moved on,
\* the record that was given has not.
C39_Witness ==
    /\ lastCall.op = "transition" /\ lastCall.outcome = "returned"
    /\ Len(transitionHistory) = 2
    /\ issue.state = "in_progress" /\ issue.priority \in IssuePriority
    /\ caller.record.state = "new" /\ caller.record.priority = NoValue
    /\ caller.record.labels = <<"state:new", "docs", "state:done">>
    /\ issue.labels # caller.record.labels
    /\ ~caller.sharesLabels
====
